---------------------------- MODULE Spec2Model ----------------------------
(***************************************************************************)
(* Model of cmd/construct_boundary/main.go (benchaid): the construct-      *)
(* boundary recommendation engine.                                         *)
(*                                                                         *)
(*   Spec      : candidate generation, scoring and ranking                 *)
(*               (buildCandidates, scoreCandidates, the sort in main)      *)
(*   SpecCache : fetchWithCache / readCache / writeCache over a cache file *)
(*   SpecHttp  : httpGet, the retrying fetch client                        *)
(*   SpecMain  : main with its resolvers (fetchUniProtEntry,               *)
(*               fetchAlphaFoldPLDDT) and its exits                        *)
(*                                                                         *)
(* Strings the code inspects (names, filters, identifiers) are sequences   *)
(* of one-character strings, "" being <<>>; a fixed name the code only     *)
(* passes on is a one-element sequence holding the whole literal.          *)
(* Scores are kept in half points (twice the Go float64 value), so the     *)
(* average of two integral boundary scores stays an integer.               *)
(***************************************************************************)
EXTENDS Integers, Sequences, FiniteSets, TLC

VARIABLES
    \* ---- main / pipeline ----
    pc,           \* position in main
    ctx,          \* boundaryContext (main.go:286)
    regionRange,  \* *rangeInfo from parseRegion, Nil when nil
    regionName,   \* free-text filter from parseRegion
    minLength,
    maxLength,
    candidates,   \* result of buildCandidates
    scored,       \* result of scoreCandidates
    top,          \* the ranked list handed to the presenters
    warnings,     \* main's warnings slice
    stdout,       \* what has been written to the output stream / plot file
    stderr,       \* messages written by fatalf
    \* ---- httpGet ----
    http,
    \* ---- cache ----
    cache,
    \* ---- main's environment (flags, resolvers, exits) ----
    env

vars == <<pc, ctx, regionRange, regionName, minLength, maxLength,
          candidates, scored, top, warnings, stdout, stderr,
          http, cache, env>>

\* A Go pointer is a sequence of at most one element: nil is the empty one.
Nil == <<>>

Ptr(x) == <<x>>

(***************************************************************************)
(* Bounds of the model.                                                    *)
(***************************************************************************)
SeqLen == 14

(***************************************************************************)
(* Small helpers: max, min, abs, clamp (main.go:1230-1259).                *)
(***************************************************************************)
max(a, b) == IF a > b THEN a ELSE b

min(a, b) == IF a < b THEN a ELSE b

abs(value) == IF value < 0 THEN -value ELSE value

clampNone(value, minValue, maxValue) == value

clamp(value, minValue, maxValue) ==
    IF value < minValue THEN minValue
    ELSE IF value > maxValue THEN maxValue
    ELSE value

Range(s) == {s[i] : i \in DOMAIN s}

(***************************************************************************)
(* strings.ToLower and strings.Contains on character sequences.            *)
(***************************************************************************)
ToLowerChar(c) ==
    CASE c = "K" -> "k"
      [] c = "I" -> "i"
      [] c = "N" -> "n"
      [] c = "S" -> "s"
      [] c = "H" -> "h"
      [] OTHER -> c

ToLower(s) == [i \in DOMAIN s |-> ToLowerChar(s[i])]

Contains(s, sub) ==
    \E k \in 0..(Len(s) - Len(sub)) :
        \A i \in 1..Len(sub) : s[k + i] = sub[i]

(***************************************************************************)
(* strconv / fmt: the decimal digits of a non-negative int, used for the   *)
(* "%d-%d" key of buildCandidates.                                         *)
(***************************************************************************)
DigitChar(d) ==
    CASE d = 0 -> "0" [] d = 1 -> "1" [] d = 2 -> "2" [] d = 3 -> "3"
      [] d = 4 -> "4" [] d = 5 -> "5" [] d = 6 -> "6" [] d = 7 -> "7"
      [] d = 8 -> "8" [] OTHER -> "9"

RECURSIVE Itoa(_)
Itoa(n) ==
    IF n < 0 THEN <<"-">> \o Itoa(-n)
    ELSE IF n < 10 THEN <<DigitChar(n)>>
    ELSE Itoa(n \div 10) \o <<DigitChar(n % 10)>>

\* fmt.Sprintf("%d-%d", start, end)
candidateKey(start, end) == Itoa(start) \o <<"-">> \o Itoa(end)

(***************************************************************************)
(* computeDisorderedRegions (main.go:717-728).                             *)
(***************************************************************************)
\* make([]bool, length)
makeMask(length) == [i \in 1..length |-> FALSE]

\* The loop at main.go:722-726, i the Go index.
RECURSIVE disorderLoop(_, _, _, _)
disorderLoop(plddt, length, i, disorder) ==
    IF ~(i < length /\ i < Len(plddt)) THEN disorder
    ELSE disorderLoop(plddt, length, i + 1,
             IF plddt[i + 1] < 50 THEN [disorder EXCEPT ![i + 1] = TRUE]
             ELSE disorder)

\* The threshold test with <= in place of <.
computeDisorderedRegionsLE(plddt, length) ==
    [i \in 1..length |-> i <= Len(plddt) /\ plddt[i] <= 50]

\* A mask no longer than the confidence array.
computeDisorderedRegionsCapped(plddt, length) ==
    IF Len(plddt) = 0 \/ length = 0
    THEN makeMask(length)
    ELSE disorderLoop(plddt, min(length, Len(plddt)), 0,
                      makeMask(min(length, Len(plddt))))

computeDisorderedRegions(plddt, length) ==
    IF Len(plddt) = 0 \/ length = 0
    THEN makeMask(length)
    ELSE disorderLoop(plddt, length, 0, makeMask(length))

(***************************************************************************)
(* compressDisorder (main.go:730-746): the loop over the mask, i the Go    *)
(* index, start the 1-indexed start of the open run (0 when none).         *)
(***************************************************************************)
\* compressDisorder without the run that is open at the end of the mask.
RECURSIVE compressLoopNoTail(_, _, _, _)
compressLoopNoTail(disorder, i, start, regions) ==
    IF i >= Len(disorder) THEN regions
    ELSE LET flag == disorder[i + 1]
             s1 == IF flag /\ start = 0 THEN i + 1 ELSE start
             close == ~flag /\ s1 # 0
         IN compressLoopNoTail(disorder, i + 1,
                IF close THEN 0 ELSE s1,
                IF close
                THEN Append(regions, [Start |-> s1, End |-> i, Name |-> <<>>])
                ELSE regions)

RECURSIVE compressLoop(_, _, _, _)
compressLoop(disorder, i, start, regions) ==
    IF i >= Len(disorder)
    THEN IF start # 0
         THEN Append(regions, [Start |-> start, End |-> Len(disorder),
                               Name |-> <<>>])
         ELSE regions
    ELSE LET flag == disorder[i + 1]
             s1 == IF flag /\ start = 0 THEN i + 1 ELSE start
             close == ~flag /\ s1 # 0
         IN compressLoop(disorder, i + 1,
                IF close THEN 0 ELSE s1,
                IF close
                THEN Append(regions, [Start |-> s1, End |-> i, Name |-> <<>>])
                ELSE regions)

compressDisorder(disorder) == compressLoop(disorder, 0, 0, <<>>)

(***************************************************************************)
(* orderedRanges (main.go:818-834).                                        *)
(***************************************************************************)
RECURSIVE orderedLoop(_, _, _, _)
orderedLoop(disordered, i, start, ranges) ==
    IF i >= Len(disordered)
    THEN IF start # 0
         THEN Append(ranges, [Start |-> start, End |-> Len(disordered),
                              Name |-> <<>>])
         ELSE ranges
    ELSE LET flag == disordered[i + 1]
             s1 == IF ~flag /\ start = 0 THEN i + 1 ELSE start
             close == flag /\ s1 # 0
         IN orderedLoop(disordered, i + 1,
                IF close THEN 0 ELSE s1,
                IF close
                THEN Append(ranges, [Start |-> s1, End |-> i, Name |-> <<>>])
                ELSE ranges)

orderedRanges(disordered) == orderedLoop(disordered, 0, 0, <<>>)

(***************************************************************************)
(* buildCandidates (main.go:765-816).  acc is the pair of the closure's    *)
(* captured variables: candidates and seen.                                *)
(***************************************************************************)
newCandidate(start, end, source, name, pdbID) ==
    [Start |-> start, End |-> end, Source |-> source, Name |-> name,
     PDBID |-> pdbID, Score |-> 0, Rationale |-> <<>>]

addCandidateNoSeen(acc, start, end, source, name, pdbID, minL, maxL) ==
    IF start <= 0 \/ end <= 0 \/ start > end THEN acc
    ELSE IF end - start + 1 < minL THEN acc
    ELSE IF maxL > 0 /\ end - start + 1 > maxL THEN acc
    ELSE [candidates |-> Append(acc.candidates,
                            newCandidate(start, end, source, name, pdbID)),
          seen |-> acc.seen \cup {candidateKey(start, end)}]

addCandidateNoMax(acc, start, end, source, name, pdbID, minL, maxL) ==
    IF start <= 0 \/ end <= 0 \/ start > end THEN acc
    ELSE IF end - start + 1 < minL THEN acc
    ELSE IF candidateKey(start, end) \in acc.seen THEN acc
    ELSE [candidates |-> Append(acc.candidates,
                            newCandidate(start, end, source, name, pdbID)),
          seen |-> acc.seen \cup {candidateKey(start, end)}]

\* addCandidate in which a later proposal of a seen range replaces the
\* earlier one.
addCandidateLastWins(acc, start, end, source, name, pdbID, minL, maxL) ==
    IF start <= 0 \/ end <= 0 \/ start > end THEN acc
    ELSE IF end - start + 1 < minL THEN acc
    ELSE IF maxL > 0 /\ end - start + 1 > maxL THEN acc
    ELSE IF candidateKey(start, end) \in acc.seen
    THEN [acc EXCEPT !.candidates =
             [i \in DOMAIN acc.candidates |->
                 IF acc.candidates[i].Start = start /\ acc.candidates[i].End = end
                 THEN newCandidate(start, end, source, name, pdbID)
                 ELSE acc.candidates[i]]]
    ELSE [candidates |-> Append(acc.candidates,
                            newCandidate(start, end, source, name, pdbID)),
          seen |-> acc.seen \cup {candidateKey(start, end)}]

addCandidate(acc, start, end, source, name, pdbID, minL, maxL) ==
    IF start <= 0 \/ end <= 0 \/ start > end THEN acc
    ELSE IF end - start + 1 < minL THEN acc
    ELSE IF maxL > 0 /\ end - start + 1 > maxL THEN acc
    ELSE IF candidateKey(start, end) \in acc.seen THEN acc
    ELSE [candidates |-> Append(acc.candidates,
                            newCandidate(start, end, source, name, pdbID)),
          seen |-> acc.seen \cup {candidateKey(start, end)}]

\* The domain loop with a case-sensitive name test.
RECURSIVE addDomainsCaseSensitive(_, _, _, _, _, _)
addDomainsCaseSensitive(acc, domains, i, rName, minL, maxL) ==
    IF i > Len(domains) THEN acc
    ELSE LET domain == domains[i]
             skip == rName # <<>> /\ ~Contains(domain.Name, rName)
         IN addDomainsCaseSensitive(
                IF skip THEN acc
                ELSE addCandidate(acc, domain.Start, domain.End, "domain",
                                  domain.Name, <<>>, minL, maxL),
                domains, i + 1, rName, minL, maxL)

RECURSIVE addDomains(_, _, _, _, _, _)
addDomains(acc, domains, i, rName, minL, maxL) ==
    IF i > Len(domains) THEN acc
    ELSE LET domain == domains[i]
             skip == rName # <<>>
                     /\ ~Contains(ToLower(domain.Name), ToLower(rName))
         IN addDomains(
                IF skip THEN acc
                ELSE addCandidate(acc, domain.Start, domain.End, "domain",
                                  domain.Name, <<>>, minL, maxL),
                domains, i + 1, rName, minL, maxL)

RECURSIVE addPDBRanges(_, _, _, _, _)
addPDBRanges(acc, pdbRanges, i, minL, maxL) ==
    IF i > Len(pdbRanges) THEN acc
    ELSE addPDBRanges(
             addCandidate(acc, pdbRanges[i].Start, pdbRanges[i].End, "pdb",
                          pdbRanges[i].ID, pdbRanges[i].ID, minL, maxL),
             pdbRanges, i + 1, minL, maxL)

RECURSIVE addOrdered(_, _, _, _, _)
addOrdered(acc, segs, i, minL, maxL) ==
    IF i > Len(segs) THEN acc
    ELSE addOrdered(
             addCandidate(acc, segs[i].Start, segs[i].End, "ordered",
                          <<"ordered_segment">>, <<>>, minL, maxL),
             segs, i + 1, minL, maxL)

\* buildCandidates that adds the ordered runs whenever no numeric region
\* was given, filter or not.
buildCandidatesOrderedWithFilter(rRange, rName, domains, pdbRanges, disordered, minL, maxL) ==
    LET a0 == [candidates |-> <<>>, seen |-> {}]
        a1 == IF rRange # Nil
              THEN addCandidate(a0, rRange[1].Start, rRange[1].End, "user",
                                <<"user_region">>, <<>>, minL, maxL)
              ELSE a0
        a2 == addDomains(a1, domains, 1, rName, minL, maxL)
        a3 == addPDBRanges(a2, pdbRanges, 1, minL, maxL)
        a4 == IF rRange = Nil
              THEN addOrdered(a3, orderedRanges(disordered), 1, minL, maxL)
              ELSE a3
    IN a4.candidates

buildCandidates(rRange, rName, domains, pdbRanges, disordered, minL, maxL) ==
    LET a0 == [candidates |-> <<>>, seen |-> {}]
        a1 == IF rRange # Nil
              THEN addCandidate(a0, rRange[1].Start, rRange[1].End, "user",
                                <<"user_region">>, <<>>, minL, maxL)
              ELSE a0
        a2 == addDomains(a1, domains, 1, rName, minL, maxL)
        a3 == addPDBRanges(a2, pdbRanges, 1, minL, maxL)
        a4 == IF rRange = Nil /\ rName = <<>>
              THEN addOrdered(a3, orderedRanges(disordered), 1, minL, maxL)
              ELSE a3
    IN a4.candidates

(***************************************************************************)
(* Boundary scoring (main.go:856-974, 1182-1201).  Positions are the       *)
(* 1-indexed residue numbers of the code; Go slice index k is element      *)
(* k + 1 of the sequence.                                                  *)
(***************************************************************************)
isDisorderTransition(pos, side, disorder) ==
    IF Len(disorder) = 0 \/ pos <= 0 \/ pos > Len(disorder) THEN FALSE
    ELSE LET idx == pos - 1
         IN IF side = "start"
            THEN IF disorder[idx + 1] THEN FALSE
                 ELSE IF idx = 0 THEN TRUE
                 ELSE disorder[idx]
            ELSE IF disorder[idx + 1] THEN FALSE
                 ELSE IF idx = Len(disorder) - 1 THEN TRUE
                 ELSE disorder[idx + 2]

isDomainBoundary(pos, domains) ==
    \E i \in DOMAIN domains :
        abs(pos - domains[i].Start) <= 3 \/ abs(pos - domains[i].End) <= 3

matchesPDBBoundary(pos, pdbRanges) ==
    \E i \in DOMAIN pdbRanges :
        abs(pos - pdbRanges[i].Start) <= 3 \/ abs(pos - pdbRanges[i].End) <= 3

RECURSIVE sumWindow(_, _, _)
sumWindow(values, start, end) ==
    IF start > end THEN 0
    ELSE values[start + 1] + sumWindow(values, start + 1, end)

\* avgWindow returns the rational sum/count as the pair (sum, count); the
\* early returns of 0 are the pair (0, 1).
avgWindow(values, start, end) ==
    IF Len(values) = 0 \/ start > end THEN [sum |-> 0, count |-> 1]
    ELSE LET s == max(0, start)
             e == min(Len(values) - 1, end)
         IN IF s > e THEN [sum |-> 0, count |-> 1]
            ELSE [sum |-> sumWindow(values, s, e), count |-> e - s + 1]

avgGreater(avg, limit) == avg.sum > limit * avg.count

avgLess(avg, limit) == avg.sum < limit * avg.count

isLoopRegion(pos, plddt) ==
    IF Len(plddt) = 0 \/ pos <= 2 \/ pos >= Len(plddt) - 2 THEN FALSE
    ELSE LET center == avgWindow(plddt, pos - 2, pos + 2)
             left == avgWindow(plddt, max(0, pos - 8), pos - 3)
             right == avgWindow(plddt, pos + 3, min(Len(plddt) - 1, pos + 8))
         IN avgLess(center, 70) /\ avgGreater(left, 70) /\ avgGreater(right, 70)

\* hasStructuredSide that takes missing confidence data for structure.
hasStructuredSideDefaultTrue(pos, side, plddt) ==
    IF Len(plddt) = 0 THEN TRUE
    ELSE IF side = "start"
         THEN avgGreater(avgWindow(plddt, pos - 1, min(Len(plddt) - 1, pos + 8)), 70)
         ELSE avgGreater(avgWindow(plddt, max(0, pos - 10), pos - 1), 70)

\* hasStructuredSide with a start window of 8 residues.
hasStructuredSideEight(pos, side, plddt) ==
    IF Len(plddt) = 0 THEN FALSE
    ELSE IF side = "start"
         THEN avgGreater(avgWindow(plddt, pos - 1, min(Len(plddt) - 1, pos + 6)), 70)
         ELSE avgGreater(avgWindow(plddt, max(0, pos - 10), pos - 1), 70)

hasStructuredSide(pos, side, plddt) ==
    IF Len(plddt) = 0 THEN FALSE
    ELSE IF side = "start"
         THEN avgGreater(avgWindow(plddt, pos - 1, min(Len(plddt) - 1, pos + 8)), 70)
         ELSE avgGreater(avgWindow(plddt, max(0, pos - 10), pos - 1), 70)

withinRanges(pos, ranges) ==
    \E i \in DOMAIN ranges : pos >= ranges[i].Start /\ pos <= ranges[i].End

\* withinPositions with a strict comparison.
withinPositionsStrict(pos, positions, buffer) ==
    \E i \in DOMAIN positions : abs(pos - positions[i]) < buffer

withinPositions(pos, positions, buffer) ==
    \E i \in DOMAIN positions : abs(pos - positions[i]) <= buffer

\* One term of boundaryScore: its weight and rationale when it triggers.
term(cond, weight, text) ==
    IF cond THEN [score |-> weight, rationale |-> <<text>>]
    ELSE [score |-> 0, rationale |-> <<>>]

\* boundaryScore with an active-site penalty of 50.
boundaryTermsWeakActive(pos, side, c) ==
    << term(isDisorderTransition(pos, side, c.Disorder), 30, "disorder transition"),
       term(isDomainBoundary(pos, c.DomainRanges), 25, "domain boundary"),
       term(isLoopRegion(pos, c.PLDDT), 20, "loop-like region"),
       term(hasStructuredSide(pos, side, c.PLDDT), 15, "high pLDDT side"),
       term(matchesPDBBoundary(pos, c.PDBRanges), 10, "PDB boundary"),
       term(withinRanges(pos, c.HelixRanges) \/ withinRanges(pos, c.StrandRanges),
            -50, "cuts secondary structure"),
       term(withinRanges(pos, c.ActiveSites), -50, "near active site"),
       term(withinPositions(pos, c.PTMPositions, 5), -20, "near PTM site") >>

boundaryTerms(pos, side, c) ==
    << term(isDisorderTransition(pos, side, c.Disorder), 30, "disorder transition"),
       term(isDomainBoundary(pos, c.DomainRanges), 25, "domain boundary"),
       term(isLoopRegion(pos, c.PLDDT), 20, "loop-like region"),
       term(hasStructuredSide(pos, side, c.PLDDT), 15, "high pLDDT side"),
       term(matchesPDBBoundary(pos, c.PDBRanges), 10, "PDB boundary"),
       term(withinRanges(pos, c.HelixRanges) \/ withinRanges(pos, c.StrandRanges),
            -50, "cuts secondary structure"),
       term(withinRanges(pos, c.ActiveSites), -100, "near active site"),
       term(withinPositions(pos, c.PTMPositions, 5), -20, "near PTM site") >>

RECURSIVE sumTerms(_, _)
sumTerms(ts, i) ==
    IF i > Len(ts) THEN [score |-> 0, rationale |-> <<>>]
    ELSE LET rest == sumTerms(ts, i + 1)
         IN [score |-> ts[i].score + rest.score,
             rationale |-> ts[i].rationale \o rest.rationale]

\* Returns the pair (score, rationale) of the Go function, the score in
\* whole points.
boundaryScoreUnclamped(pos, side, c) == sumTerms(boundaryTerms(pos, side, c), 1)

boundaryScore(pos, side, c) ==
    LET raw == sumTerms(boundaryTerms(pos, side, c), 1)
    IN [score |-> clamp(raw.score, 0, 100), rationale |-> raw.rationale]

(***************************************************************************)
(* scoreCandidates (main.go:836-854).  Score is in half points:            *)
(* startScore + endScore is twice (startScore + endScore) / 2.             *)
(***************************************************************************)
\* scoreCandidates that clamps the average instead of each boundary score.
scoreOneClampAfter(cand, c) ==
    LET s == boundaryScoreUnclamped(cand.Start, "start", c)
        e == boundaryScoreUnclamped(cand.End, "end", c)
    IN [cand EXCEPT !.Score = clamp(s.score + e.score, 0, 200),
                    !.Rationale = s.rationale \o e.rationale]

scoreOne(cand, c) ==
    LET s == boundaryScore(cand.Start, "start", c)
        e == boundaryScore(cand.End, "end", c)
    IN [cand EXCEPT !.Score = s.score + e.score,
                    !.Rationale = s.rationale \o e.rationale]

\* sort.SliceStable by Score descending: insertion keeps equal scores in
\* their input order.
RECURSIVE stableInsert(_, _)
stableInsert(sorted, cand) ==
    IF sorted = <<>> THEN <<cand>>
    ELSE IF sorted[Len(sorted)].Score >= cand.Score THEN Append(sorted, cand)
    ELSE Append(stableInsert(SubSeq(sorted, 1, Len(sorted) - 1), cand),
                sorted[Len(sorted)])

RECURSIVE stableSortByScore(_, _, _)
stableSortByScore(cands, i, sorted) ==
    IF i > Len(cands) THEN sorted
    ELSE stableSortByScore(cands, i + 1, stableInsert(sorted, cands[i]))

scoreCandidates(cands, c) ==
    stableSortByScore([i \in DOMAIN cands |-> scoreOne(cands[i], c)], 1, <<>>)

(***************************************************************************)
(* The ranking of main (main.go:308-318).  Length is candidate.Length      *)
(* (main.go:998).  sort.Slice is not stable: its result is some            *)
(* permutation of the input in which no element is `less` than an earlier  *)
(* one; every such permutation is a possible outcome.                      *)
(***************************************************************************)
Length(cand) == cand.End - cand.Start + 1

lessLongerFirst(a, b) ==
    IF a.Score = b.Score THEN Length(a) > Length(b) ELSE a.Score > b.Score

less(a, b) ==
    IF a.Score = b.Score THEN Length(a) < Length(b) ELSE a.Score > b.Score

RECURSIVE sortedPerms(_, _)
sortedPerms(s, I) ==
    IF I = {} THEN {<<>>}
    ELSE UNION { { <<s[i]>> \o p : p \in sortedPerms(s, I \ {i}) } :
                 i \in {i \in I : \A j \in I : ~less(s[j], s[i])} }

sortSlice(s) == sortedPerms(s, DOMAIN s)

TopN == 10

truncateTop(s) == IF Len(s) > TopN THEN SubSeq(s, 1, TopN) ELSE s

(***************************************************************************)
(* Inputs of the pipeline specification.                                   *)
(***************************************************************************)
Kin == <<"K", "i", "n">>
SH == <<"S", "H">>

Rng(s, e, n) == [Start |-> s, End |-> e, Name |-> n]

Pdb(id, s, e) == [ID |-> id, Start |-> s, End |-> e]

\* A confidence array of length n with value v[1] up to position a, v[2] up
\* to position b and v[3] after it.
Pl(n, a, b, v) ==
    [i \in 1..n |-> IF i <= a THEN v[1] ELSE IF i <= b THEN v[2] ELSE v[3]]

PlddtInputs ==
    {<<>>, Pl(SeqLen, 1, 9, <<90, 49, 90>>)} \cup
    { Pl(n, 4, 9, v) : n \in {SeqLen - 2, SeqLen, SeqLen + 1},
                       v \in {<<90, 49, 90>>, <<49, 90, 50>>, <<90, 50, 90>>} }

DomainInputs ==
    { <<>>,
      <<Rng(3, 8, Kin), Rng(6, SeqLen, SH)>>,
      <<Rng(3, 8, Kin), Rng(3, 8, SH), Rng(-1, 5, Kin), Rng(9, 4, SH),
        Rng(5, SeqLen + 3, Kin)>> }

\* TopN + 2 structure ranges of pairwise different lengths 2 .. TopN + 3.
PdbLadder ==
    [k \in 1..(TopN + 2) |-> Pdb(<<"1", "A">>, 1 + (k % 2), 1 + (k % 2) + k)]

PDBInputs ==
    { <<>>,
      <<Pdb(<<"2", "B">>, 3, 8), Pdb(<<"3", "C">>, 2, 5), Pdb(<<"3", "C">>, 0, 7),
        Pdb(<<"3", "C">>, 4, 7)>>,
      PdbLadder }

FeatureInputs ==
    { [Helix |-> <<>>, Strand |-> <<>>, Active |-> <<>>, PTM |-> <<>>],
      [Helix |-> <<Rng(3, 5, <<>>)>>, Strand |-> <<>>,
       Active |-> <<Rng(8, 8, <<>>)>>, PTM |-> <<6>>],
      [Helix |-> <<>>, Strand |-> <<Rng(1, 2, <<>>)>>,
       Active |-> <<Rng(3, 3, <<>>), Rng(8, 8, <<>>), Rng(SeqLen, SeqLen, <<>>)>>,
       PTM |-> <<>>] }

RegionInputs ==
    { [range |-> Nil, name |-> <<>>],
      [range |-> Ptr(Rng(3, 8, <<>>)), name |-> <<>>],
      [range |-> Ptr(Rng(2, SeqLen + 5, <<>>)), name |-> <<>>],
      [range |-> Nil, name |-> <<"k", "I">>],
      [range |-> Nil, name |-> <<"x">>] }

MinLengthInputs == {2, 4}

MaxLengthInputs == {0, 6}

\* The boundaryContext built at main.go:282-296.
makeContext(length, plddt, domains, pdbRanges, f) ==
    [Length |-> length,
     Disorder |-> computeDisorderedRegions(plddt, length),
     PLDDT |-> plddt,
     DomainRanges |-> domains,
     PDBRanges |-> pdbRanges,
     HelixRanges |-> f.Helix,
     StrandRanges |-> f.Strand,
     ActiveSites |-> f.Active,
     PTMPositions |-> f.PTM]

NoContext == makeContext(0, <<>>, <<>>, <<>>,
                 [Helix |-> <<>>, Strand |-> <<>>, Active |-> <<>>, PTM |-> <<>>])

HttpIdle == [pc |-> "idle"]
CacheIdle == [pc |-> "idle"]
EnvIdle == [pc |-> "idle"]

(***************************************************************************)
(* The pipeline steps of main (main.go:303-318).                           *)
(***************************************************************************)
\* main.go:303
BuildCandidates ==
    /\ pc = "build"
    /\ candidates' = buildCandidates(regionRange, regionName, ctx.DomainRanges,
                                     ctx.PDBRanges, ctx.Disorder,
                                     minLength, maxLength)
    /\ pc' = "score"
    /\ UNCHANGED <<ctx, regionRange, regionName, minLength, maxLength, scored,
                   top, warnings, stdout, stderr, http, cache, env>>

\* main.go:304-307
ScoreCandidates ==
    /\ pc = "score"
    /\ scored' = scoreCandidates(candidates, ctx)
    /\ IF Len(scored') = 0
       THEN /\ stderr' = Append(stderr, "no construct candidates found with current filters")
            /\ pc' = "fatal"
       ELSE /\ stderr' = stderr
            /\ pc' = "rank"
    /\ UNCHANGED <<ctx, regionRange, regionName, minLength, maxLength,
                   candidates, top, warnings, stdout, http, cache, env>>

\* main.go:308-318
RankCandidates ==
    /\ pc = "rank"
    /\ \E sorted \in sortSlice(scored) : top' = truncateTop(sorted)
    /\ pc' = "present"
    /\ UNCHANGED <<ctx, regionRange, regionName, minLength, maxLength,
                   candidates, scored, warnings, stdout, stderr,
                   http, cache, env>>

Init ==
    /\ pc = "build"
    /\ \E plddt \in PlddtInputs, domains \in DomainInputs,
          pdbRanges \in PDBInputs, f \in FeatureInputs :
          ctx = makeContext(SeqLen, plddt, domains, pdbRanges, f)
    /\ \E r \in RegionInputs : regionRange = r.range /\ regionName = r.name
    /\ minLength \in MinLengthInputs
    /\ maxLength \in MaxLengthInputs
    /\ candidates = <<>>
    /\ scored = <<>>
    /\ top = <<>>
    /\ warnings = <<>>
    /\ stdout = <<>>
    /\ stderr = <<>>
    /\ http = HttpIdle
    /\ cache = CacheIdle
    /\ env = EnvIdle

Next == BuildCandidates \/ ScoreCandidates \/ RankCandidates

Spec == Init /\ [][Next]_vars

(***************************************************************************)
(* Claims about candidate generation, scoring and ranking (Spec).          *)
(***************************************************************************)
Ranked == pc = "present"

\* Every range proposed to addCandidate by buildCandidates in this run.
Proposed ==
    (IF regionRange # Nil THEN {<<regionRange[1].Start, regionRange[1].End>>} ELSE {})
    \cup {<<ctx.DomainRanges[i].Start, ctx.DomainRanges[i].End>> :
            i \in {i \in DOMAIN ctx.DomainRanges :
                     regionName = <<>>
                     \/ Contains(ToLower(ctx.DomainRanges[i].Name), ToLower(regionName))}}
    \cup {<<ctx.PDBRanges[i].Start, ctx.PDBRanges[i].End>> : i \in DOMAIN ctx.PDBRanges}
    \cup (IF regionRange = Nil /\ regionName = <<>>
          THEN {<<r.Start, r.End>> : r \in Range(orderedRanges(ctx.Disorder))}
          ELSE {})

\* C1: every candidate of the final ranked output has a score in [0,100]
\* (0..200 half points): each of its two boundary scores lies in [0,100]
\* and the candidate score is their average (their sum, in half points).
C1_ScoreInRange ==
    Ranked =>
        \A i \in DOMAIN top :
            LET s == boundaryScore(top[i].Start, "start", ctx).score
                e == boundaryScore(top[i].End, "end", ctx).score
            IN /\ s \in 0..100
               /\ e \in 0..100
               /\ top[i].Score = s + e
               /\ top[i].Score \in 0..200

\* A ranked candidate one of whose boundaries has a negative raw sum, so
\* that the clamp acted.
C1_Witness ==
    /\ Ranked
    /\ \E i \in DOMAIN top :
          sumTerms(boundaryTerms(top[i].Start, "start", ctx), 1).score < 0

\* C2: no two candidates of the final ranked list share a (start, end) pair.
C2_NoDuplicates ==
    Ranked =>
        \A i, j \in DOMAIN top :
            i # j => <<top[i].Start, top[i].End>> # <<top[j].Start, top[j].End>>

\* The user region, a domain and a structure range all proposed 3-8, and
\* 3-8 is ranked.
C2_Witness ==
    /\ Ranked
    /\ regionRange # Nil /\ regionRange[1].Start = 3 /\ regionRange[1].End = 8
    /\ \E i \in DOMAIN ctx.DomainRanges :
          ctx.DomainRanges[i].Start = 3 /\ ctx.DomainRanges[i].End = 8
    /\ \E i \in DOMAIN ctx.PDBRanges :
          ctx.PDBRanges[i].Start = 3 /\ ctx.PDBRanges[i].End = 8
    /\ \E i \in DOMAIN top : top[i].Start = 3 /\ top[i].End = 8

Acceptable(start, end) ==
    /\ start >= 1
    /\ end >= start
    /\ end - start + 1 >= minLength
    /\ maxLength > 0 => end - start + 1 <= maxLength

\* C3: every candidate returned by buildCandidates has start >= 1,
\* end >= start, length >= minLength and, when maxLength > 0,
\* length <= maxLength; the candidates are exactly the proposed ranges that
\* satisfy all of these, so a violating proposal never appears.
C3_CandidatesFiltered ==
    pc # "build" =>
        {<<candidates[i].Start, candidates[i].End>> : i \in DOMAIN candidates}
            = {r \in Proposed : Acceptable(r[1], r[2])}

\* Proposals were rejected for each of the four reasons while others were
\* kept.
C3_Witness ==
    /\ pc = "score"
    /\ candidates # <<>>
    /\ \E r \in Proposed : r[1] <= 0
    /\ \E r \in Proposed : r[1] >= 1 /\ r[2] < r[1]
    /\ \E r \in Proposed : r[1] >= 1 /\ r[2] >= r[1] /\ r[2] - r[1] + 1 < minLength
    /\ maxLength > 0
    /\ \E r \in Proposed : r[1] >= 1 /\ r[2] - r[1] + 1 > maxLength

\* C4: the final ranked list has min(10, n) of the n scored candidates,
\* ordered by score descending with ties broken by ascending length, and no
\* omitted candidate ranks before a retained one.
C4_RankedPrefix ==
    Ranked =>
        /\ Len(top) = min(10, Len(scored))
        /\ Range(top) \subseteq Range(scored)
        /\ \A i \in 1..(Len(top) - 1) :
              \/ top[i].Score > top[i + 1].Score
              \/ /\ top[i].Score = top[i + 1].Score
                 /\ Length(top[i]) <= Length(top[i + 1])
        /\ \A c \in Range(scored) \ Range(top) :
              \A i \in DOMAIN top :
                  \/ top[i].Score > c.Score
                  \/ top[i].Score = c.Score /\ Length(top[i]) <= Length(c)

\* More than ten candidates were scored, one was cut, and the list has a
\* score tie between candidates of different lengths.
C4_Witness ==
    /\ Ranked
    /\ Len(scored) > 10
    /\ Len(top) = 10
    /\ \E i \in 1..(Len(top) - 1) :
          top[i].Score = top[i + 1].Score /\ Length(top[i]) < Length(top[i + 1])
    /\ \E i \in 1..(Len(top) - 1) : top[i].Score > top[i + 1].Score

(***************************************************************************)
(* httpGet (main.go:577-631), the retrying fetch client.                   *)
(*                                                                         *)
(* A reply of client.Get is a record: kind "neterr" (Get returned an       *)
(* error) or "resp" with the status code, whether reading the body         *)
(* succeeds, the Content-Encoding header and the body.  A body is the pair *)
(* of its wire format ("plain", "gzip", or "badgzip": the gzip magic bytes *)
(* followed by a corrupt stream) and the data it carries.                  *)
(***************************************************************************)
MaxAttempts == 3

StatusNotFound == 404

Datas == {"b1", "b2"}

Statuses == {200, 299, 300, 404, 503}

Reply(kind, status, read, header, format, data) ==
    [kind |-> kind, status |-> status, read |-> read, header |-> header,
     body |-> [format |-> format, data |-> data]]

Replies ==
    {Reply("neterr", 0, "err", "", "plain", "b1")}
    \cup {Reply("resp", st, "ok", "", "plain", "b1") :
            st \in {x \in Statuses : x < 200 \/ x >= 300}}
    \cup {Reply("resp", st, "err", "", "plain", "b1") :
            st \in {x \in Statuses : x >= 200 /\ x < 300}}
    \cup {Reply("resp", st, "ok", h, f, d) :
            st \in {x \in Statuses : x >= 200 /\ x < 300},
            h \in {"", "gzip"}, f \in {"plain", "gzip", "badgzip"}, d \in Datas}

\* isGzip: the body starts with the gzip magic bytes.
isGzip(body) == body.format \in {"gzip", "badgzip"}

\* gunzip: the decoded bytes, or an error when the stream is no valid gzip.
gunzip(body) ==
    IF body.format = "gzip"
    THEN [err |-> "", bytes |-> [format |-> "plain", data |-> body.data]]
    ELSE [err |-> "gzip: invalid data", bytes |-> [format |-> "plain", data |-> ""]]

NoBytes == [format |-> "plain", data |-> ""]

\* The loop condition of httpGet.
loopCondOneMore(attempt) == attempt <= MaxAttempts

loopCond(attempt) == attempt < MaxAttempts

\* What one iteration of the loop does with a reply: "retry" (record lastErr,
\* sleep, continue) or "return" with the bytes or the error.
iterationRetry404(reply) ==
    IF reply.kind = "neterr"
    THEN [do |-> "retry", err |-> "network error", bytes |-> NoBytes]
    ELSE IF reply.status < 200 \/ reply.status >= 300
    THEN [do |-> "retry", err |-> "http status", bytes |-> NoBytes]
    ELSE IF reply.read = "err"
    THEN [do |-> "retry", err |-> "read error", bytes |-> NoBytes]
    ELSE IF reply.header = "gzip" \/ isGzip(reply.body)
    THEN [do |-> "return", err |-> gunzip(reply.body).err,
          bytes |-> gunzip(reply.body).bytes]
    ELSE [do |-> "return", err |-> "", bytes |-> reply.body]

iteration(reply) ==
    IF reply.kind = "neterr"
    THEN [do |-> "retry", err |-> "network error", bytes |-> NoBytes]
    ELSE IF reply.status = StatusNotFound
    THEN [do |-> "return", err |-> "resource not found", bytes |-> NoBytes]
    ELSE IF reply.status < 200 \/ reply.status >= 300
    THEN [do |-> "retry", err |-> "http status", bytes |-> NoBytes]
    ELSE IF reply.read = "err"
    THEN [do |-> "retry", err |-> "read error", bytes |-> NoBytes]
    ELSE IF reply.header = "gzip" \/ isGzip(reply.body)
    THEN [do |-> "return", err |-> gunzip(reply.body).err,
          bytes |-> gunzip(reply.body).bytes]
    ELSE [do |-> "return", err |-> "", bytes |-> reply.body]

HttpStart ==
    [pc |-> "loop", attempt |-> 0, log |-> <<>>, sleeps |-> <<>>,
     lastErr |-> "", err |-> "", bytes |-> NoBytes]

\* One iteration of the for loop: client.Get and the handling of its reply.
\* log records the replies of the requests issued, sleeps the seconds slept.
HttpAttempt ==
    /\ http.pc = "loop"
    /\ loopCond(http.attempt)
    /\ \E reply \in Replies :
          LET it == iteration(reply)
          IN IF it.do = "retry"
             THEN http' = [http EXCEPT !.log = Append(@, reply),
                                       !.lastErr = it.err,
                                       !.sleeps = Append(@, http.attempt + 1),
                                       !.attempt = @ + 1]
             ELSE http' = [http EXCEPT !.log = Append(@, reply),
                                       !.err = it.err,
                                       !.bytes = it.bytes,
                                       !.pc = "done"]
    /\ UNCHANGED <<pc, ctx, regionRange, regionName, minLength, maxLength,
                   candidates, scored, top, warnings, stdout, stderr,
                   cache, env>>

\* The loop ran out: return nil, lastErr (main.go:610).
HttpGiveUp ==
    /\ http.pc = "loop"
    /\ ~loopCond(http.attempt)
    /\ http' = [http EXCEPT !.err = http.lastErr, !.pc = "done"]
    /\ UNCHANGED <<pc, ctx, regionRange, regionName, minLength, maxLength,
                   candidates, scored, top, warnings, stdout, stderr,
                   cache, env>>

InitHttp ==
    /\ pc = "idle"
    /\ ctx = NoContext
    /\ regionRange = Nil
    /\ regionName = <<>>
    /\ minLength = 0
    /\ maxLength = 0
    /\ candidates = <<>>
    /\ scored = <<>>
    /\ top = <<>>
    /\ warnings = <<>>
    /\ stdout = <<>>
    /\ stderr = <<>>
    /\ http = HttpStart
    /\ cache = CacheIdle
    /\ env = EnvIdle

NextHttp == HttpAttempt \/ HttpGiveUp

SpecHttp == InitHttp /\ [][NextHttp]_vars

(***************************************************************************)
(* Claims about httpGet (SpecHttp).                                        *)
(***************************************************************************)
HttpDone == http.pc = "done"

Is2xx(reply) == reply.kind = "resp" /\ reply.status >= 200 /\ reply.status < 300

Is404(reply) == reply.kind = "resp" /\ reply.status = 404

\* A reply whose 2xx body arrives whole: the attempt `gets a 2xx response';
\* a body that cannot be read is a network failure.
Got2xx(reply) == Is2xx(reply) /\ reply.read = "ok"

\* A reply the claim calls a failure to retry: a network failure or a
\* status that is neither 2xx nor 404.
Failed(reply) == ~Got2xx(reply) /\ ~Is404(reply)

\* The sleeps so far are 1, 2, ... seconds, one after each failed attempt.
LinearBackoff ==
    /\ \A i \in DOMAIN http.sleeps : http.sleeps[i] = i
    /\ Len(http.sleeps) = Cardinality({i \in DOMAIN http.log : Failed(http.log[i])})

\* C7 as claimed: at most 3 requests; the call returns the body of the
\* first attempt that gets a 2xx response, and the last error once three
\* attempts have failed.
C7_AsClaimed ==
    /\ Len(http.log) <= 3
    /\ LinearBackoff
    /\ HttpDone =>
          \/ /\ Got2xx(http.log[Len(http.log)])
             /\ http.err = ""
             /\ http.bytes.data = http.log[Len(http.log)].body.data
          \/ Is404(http.log[Len(http.log)])
          \/ /\ Len(http.log) = 3
             /\ \A i \in 1..3 : Failed(http.log[i])
             /\ http.err = http.lastErr /\ http.err # ""

\* The 2xx reply whose body arrived is usable: it is not compressed, or it
\* is a valid gzip stream.
Decodable(reply) ==
    IF reply.header = "gzip" \/ isGzip(reply.body)
    THEN reply.body.format = "gzip"
    ELSE TRUE

\* C7, amended: every call ends after at most 3 requests (no fourth is ever
\* issued); every attempt before the last one failed and was followed by a
\* sleep of attempt_index+1 seconds; the call returns the (decompressed)
\* body of the first attempt that gets a 2xx response when that body
\* decodes, the decoding error at once when it does not, and the last error
\* once 3 attempts have failed.
C7_BoundedRetries ==
    /\ Len(http.log) <= 3
    /\ http.attempt <= 3
    /\ LinearBackoff
    /\ \A i \in 1..(Len(http.log) - 1) : Failed(http.log[i])
    /\ HttpDone =>
          LET last == http.log[Len(http.log)]
          IN \/ /\ Got2xx(last) /\ Decodable(last)
                /\ http.err = ""
                /\ http.bytes = [format |-> "plain", data |-> last.body.data]
             \/ /\ Got2xx(last) /\ ~Decodable(last)
                /\ http.err = "gzip: invalid data"
             \/ Is404(last) /\ http.err = "resource not found"
             \/ /\ Len(http.log) = 3
                /\ \A i \in 1..3 : Failed(http.log[i])
                /\ http.err = http.lastErr /\ http.err # ""
                /\ http.sleeps = <<1, 2, 3>>

\* A call that failed twice (network, then status) and then returned the
\* decompressed body of a gzip reply.
C7_Witness ==
    /\ HttpDone
    /\ Len(http.log) = 3
    /\ http.log[1].kind = "neterr"
    /\ http.log[2].kind = "resp" /\ http.log[2].status = 503
    /\ Got2xx(http.log[3]) /\ http.log[3].body.format = "gzip"
    /\ http.err = "" /\ http.bytes.data = "b2"
    /\ http.sleeps = <<1, 2>>

\* C8: a 404 reply on any attempt ends the call at once with the not-found
\* error, which no other outcome produces: it is the last request issued
\* and no sleep follows it.
C8_NotFoundEndsCall ==
    /\ \A i \in DOMAIN http.log :
          Is404(http.log[i]) =>
              /\ i = Len(http.log)
              /\ HttpDone
              /\ http.err = "resource not found"
              /\ Len(http.sleeps) = i - 1
    /\ (HttpDone /\ http.err = "resource not found")
          => Is404(http.log[Len(http.log)])

\* A 404 on the second attempt, after one retried failure.
C8_Witness ==
    /\ Len(http.log) = 2
    /\ Failed(http.log[1])
    /\ Is404(http.log[2])
    /\ HttpDone

(***************************************************************************)
(* The result cache: fetchWithCache, readCache, writeCache                 *)
(* (main.go:525-575) over one cache file.                                  *)
(*                                                                         *)
(* Time is counted in days.  A payload is a record: whether its bytes are  *)
(* valid JSON, the value they carry and their layout: "atom" (a JSON text  *)
(* that has one layout only, such as [] or 7), "compact" or "pretty" as an *)
(* upstream server sends it, "indented" as json.MarshalIndent lays out a   *)
(* nested value, "raw" for bytes that are not JSON.                        *)
(***************************************************************************)
cacheTTL == 30

\* The instants at which the clock is observed are 0 .. Early and the days
\* around the TTL.
Early == 1

ClockTimes == {t \in 0..(cacheTTL + Early + 1) : t <= Early \/ t >= cacheTTL - 1}

MaxCalls == 3

Payload(json, val, layout) == [json |-> json, val |-> val, layout |-> layout]

NoPayload == Payload(FALSE, "", "raw")

\* What a fetch function can deliver.
FetchedPayloads ==
    { Payload(TRUE, "A", "compact"), Payload(TRUE, "B", "compact"),
      Payload(TRUE, "A", "pretty"), Payload(TRUE, "E", "atom"),
      Payload(FALSE, "P", "raw") }

\* json.MarshalIndent of a cacheEntry: the RawMessage payload must be valid
\* JSON; it is compacted and re-indented inside the record.
marshalPayload(payload) ==
    IF ~payload.json THEN [err |-> "json: invalid RawMessage", stored |-> NoPayload]
    ELSE [err |-> "",
          stored |-> IF payload.layout = "atom" THEN payload
                     ELSE [payload EXCEPT !.layout = "indented"]]

\* The cache file: absent, corrupt (empty, partial or otherwise not a JSON
\* record) or a record.  orig remembers the payload that was handed to
\* writeCache; the code keeps no such field.  A process record keeps, next
\* to the locals of fetchWithCache, what the call observed: the file it
\* read (sawFile) and when (readAt), whether fetch was invoked (fetched) and
\* with what result (fetchedPayload), and writeCache's error (werr).
FileAbsent == [state |-> "absent", fetchedAt |-> 0, payload |-> NoPayload, orig |-> NoPayload]

FileCorrupt == [state |-> "corrupt", fetchedAt |-> 0, payload |-> NoPayload, orig |-> NoPayload]

\* The file as os.WriteFile's open with O_TRUNC leaves it: no bytes.
FileEmpty == [state |-> "empty", fetchedAt |-> 0, payload |-> NoPayload, orig |-> NoPayload]

FileRecord(fetchedAt, stored, orig) ==
    [state |-> "record", fetchedAt |-> fetchedAt, payload |-> stored, orig |-> orig]

\* time.Since(entry.FetchedAt) > cacheTTL
expiredAtTTL(now, fetchedAt) == now - fetchedAt >= cacheTTL

expired(now, fetchedAt) == now - fetchedAt > cacheTTL

readCache(file, now) ==
    IF file.state = "absent" THEN [ok |-> FALSE, payload |-> NoPayload]
    ELSE IF file.state \in {"corrupt", "empty"} THEN [ok |-> FALSE, payload |-> NoPayload]
    ELSE IF expired(now, file.fetchedAt) THEN [ok |-> FALSE, payload |-> NoPayload]
    ELSE [ok |-> TRUE, payload |-> file.payload]

\* What fetchWithCache returns after fetch succeeded and writeCache ended
\* with werr (main.go:534-537).
afterWritePropagate(payload, werr) ==
    IF werr # "" THEN [payload |-> NoPayload, err |-> werr]
    ELSE [payload |-> payload, err |-> ""]

afterWrite(payload, werr) == [payload |-> payload, err |-> ""]

\* What a process remembers of its previous call: whether there was one,
\* whether it fetched, what and when, and writeCache's error.
NoCall == [made |-> FALSE, fetched |-> FALSE, payload |-> NoPayload, werr |-> "",
           fetchAt |-> 0]

ProcIdle ==
    [pc |-> "idle", calls |-> 0, payload |-> NoPayload, err |-> "",
     hit |-> FALSE, fetched |-> FALSE, fetchedPayload |-> NoPayload,
     werr |-> "", stamp |-> 0, readAt |-> 0, sawFile |-> FileAbsent,
     wrote |-> 0, fetchAt |-> 0, prev |-> NoCall]

CacheProcs == {1}

otherVars == <<pc, ctx, regionRange, regionName, minLength, maxLength,
               candidates, scored, top, warnings, stdout, stderr, http, env>>

\* fetchWithCache is called.
CacheCall(p) ==
    /\ cache.procs[p].pc \in {"idle", "done"}
    /\ cache.procs[p].calls < MaxCalls
    /\ cache' = [cache EXCEPT !.procs[p] =
                    [ProcIdle EXCEPT
                        !.pc = "read",
                        !.calls = cache.procs[p].calls + 1,
                        !.prev = IF cache.procs[p].pc = "idle" THEN NoCall
                                 ELSE [made |-> TRUE,
                                       fetched |-> cache.procs[p].fetched,
                                       payload |-> cache.procs[p].fetchedPayload,
                                       werr |-> cache.procs[p].werr,
                                       fetchAt |-> cache.procs[p].fetchAt]]]
    /\ UNCHANGED otherVars

\* main.go:526-529
CacheRead(p) ==
    /\ cache.procs[p].pc = "read"
    /\ LET r == readCache(cache.file, cache.now)
       IN cache' = [cache EXCEPT
                       !.procs[p].sawFile = cache.file,
                       !.procs[p].readAt = cache.now,
                       !.procs[p].hit = r.ok,
                       !.procs[p].payload = r.payload,
                       !.procs[p].pc = IF r.ok THEN "done" ELSE "fetch"]
    /\ UNCHANGED otherVars

\* fetchWithCache that removes the cache file when the fetch fails.
CacheFetchDropping(p) ==
    /\ cache.procs[p].pc = "fetch"
    /\ \/ cache' = [cache EXCEPT !.file = FileAbsent,
                                 !.procs[p].fetched = TRUE,
                                 !.procs[p].fetchAt = cache.now,
                                 !.procs[p].err = "fetch failed",
                                 !.procs[p].pc = "done"]
       \/ \E payload \in FetchedPayloads :
             cache' = [cache EXCEPT !.procs[p].fetched = TRUE,
                                    !.procs[p].fetchAt = cache.now,
                                    !.procs[p].fetchedPayload = payload,
                                    !.procs[p].pc = "write"]
    /\ UNCHANGED otherVars

\* main.go:530-533: the fetch function fails or delivers a payload.
CacheFetch(p) ==
    /\ cache.procs[p].pc = "fetch"
    /\ \/ cache' = [cache EXCEPT !.procs[p].fetched = TRUE,
                                 !.procs[p].fetchAt = cache.now,
                                 !.procs[p].err = "fetch failed",
                                 !.procs[p].pc = "done"]
       \/ \E payload \in FetchedPayloads :
             cache' = [cache EXCEPT !.procs[p].fetched = TRUE,
                                    !.procs[p].fetchAt = cache.now,
                                    !.procs[p].fetchedPayload = payload,
                                    !.procs[p].pc = "write"]
    /\ UNCHANGED otherVars

\* writeCache up to the opening of the file (main.go:563-574): MkdirAll,
\* time.Now, MarshalIndent, and os.WriteFile's open with O_TRUNC, which
\* empties the file.  Any of them may fail.
CacheWriteOpen(p) ==
    /\ cache.procs[p].pc = "write"
    /\ LET me == cache.procs[p]
           m == marshalPayload(me.fetchedPayload)
           fail(werr) ==
               LET r == afterWrite(me.fetchedPayload, werr)
               IN [cache EXCEPT !.procs[p].werr = werr,
                                !.procs[p].payload = r.payload,
                                !.procs[p].err = r.err,
                                !.procs[p].pc = "done"]
       IN \/ cache' = fail("mkdir failed")
          \/ /\ m.err # ""
             /\ cache' = fail(m.err)
          \/ /\ m.err = ""
             /\ cache' = fail("open failed")
          \/ /\ m.err = ""
             /\ cache' = [cache EXCEPT !.file = FileEmpty,
                                       !.procs[p].stamp = cache.now,
                                       !.procs[p].pc = "writing"]
    /\ UNCHANGED otherVars

\* The file after a process has written its whole record at offset 0 of
\* the file it opened.  On the empty file that is the record.  When another
\* process has written since the file was last truncated, the bytes beyond
\* the end of the new record stay: the file is the new record when that is
\* at least as long as what was there, and the new record followed by the
\* tail of the older bytes, which json.Unmarshal rejects, when it is shorter.
\* The lengths depend on the payload bytes and on the digits of fetched_at.
overwritten(file, record) ==
    IF file.state = "empty" THEN {record} ELSE {record, FileCorrupt}

\* The number of the next whole-record write to the file, counted over the
\* calls in progress and finished.
nextWrite(procs) == 1 + Cardinality({q \in DOMAIN procs : procs[q].wrote > 0})

\* os.WriteFile writes the record, or fails leaving a partial file; then
\* fetchWithCache returns (main.go:534-537).  A reader that runs while the
\* record is being written sees a prefix of it, which like the empty file
\* is not a JSON record.
CacheWriteData(p) ==
    /\ cache.procs[p].pc = "writing"
    /\ LET me == cache.procs[p]
           m == marshalPayload(me.fetchedPayload)
       IN \/ LET r == afterWrite(me.fetchedPayload, "")
             IN \E f \in overwritten(cache.file,
                                     FileRecord(me.stamp, m.stored, me.fetchedPayload)) :
                   cache' = [cache EXCEPT
                                !.file = f,
                                !.procs[p].wrote = nextWrite(cache.procs),
                                !.procs[p].payload = r.payload,
                                !.procs[p].err = r.err,
                                !.procs[p].pc = "done"]
          \/ LET r == afterWrite(me.fetchedPayload, "write failed")
             IN cache' = [cache EXCEPT
                             !.file = FileCorrupt,
                             !.procs[p].werr = "write failed",
                             !.procs[p].payload = r.payload,
                             !.procs[p].err = r.err,
                             !.procs[p].pc = "done"]
    /\ UNCHANGED otherVars

\* Time passes.
CacheTick ==
    /\ \E t \in ClockTimes : t > cache.now /\ cache' = [cache EXCEPT !.now = t]
    /\ UNCHANGED otherVars

InitCache ==
    /\ pc = "idle"
    /\ ctx = NoContext
    /\ regionRange = Nil
    /\ regionName = <<>>
    /\ minLength = 0
    /\ maxLength = 0
    /\ candidates = <<>>
    /\ scored = <<>>
    /\ top = <<>>
    /\ warnings = <<>>
    /\ stdout = <<>>
    /\ stderr = <<>>
    /\ http = HttpIdle
    /\ env = EnvIdle
    /\ \E f \in {FileAbsent, FileCorrupt} :
          cache = [now |-> 0, file |-> f, procs |-> [p \in CacheProcs |-> ProcIdle]]

NextCache ==
    \/ \E p \in CacheProcs :
          \/ CacheCall(p)
          \/ CacheRead(p)
          \/ CacheFetch(p)
          \/ CacheWriteOpen(p)
          \/ CacheWriteData(p)
    \/ CacheTick

SpecCache == InitCache /\ [][NextCache]_vars

(***************************************************************************)
(* Two processes call fetchWithCache once each for the same cache file,    *)
(* their steps interleaved in any order.  The file is absent or holds a    *)
(* record persisted by an earlier call, fresh or expired.                  *)
(***************************************************************************)
RaceProcs == {1, 2}

\* A smaller set of earlier records than of fetched payloads.
EarlierPayloads == {Payload(TRUE, "A", "compact"), Payload(TRUE, "E", "atom")}

InitRace ==
    /\ pc = "idle"
    /\ ctx = NoContext
    /\ regionRange = Nil
    /\ regionName = <<>>
    /\ minLength = 0
    /\ maxLength = 0
    /\ candidates = <<>>
    /\ scored = <<>>
    /\ top = <<>>
    /\ warnings = <<>>
    /\ stdout = <<>>
    /\ stderr = <<>>
    /\ http = HttpIdle
    /\ env = EnvIdle
    /\ \E f \in {FileAbsent} \cup
                {FileRecord(0, marshalPayload(x).stored, x) : x \in EarlierPayloads},
          t \in {Early, cacheTTL + Early} :
          cache = [now |-> t, file |-> f, procs |-> [p \in RaceProcs |-> ProcIdle]]

NextRace ==
    \E p \in RaceProcs :
        \/ cache.procs[p].calls = 0 /\ CacheCall(p)
        \/ CacheRead(p)
        \/ CacheFetch(p)
        \/ CacheWriteOpen(p)
        \/ CacheWriteData(p)

SpecRace == InitRace /\ [][NextRace]_vars

(***************************************************************************)
(* Claims about the cache (SpecCache).                                     *)
(***************************************************************************)
\* The call of p has read the cache file and found a record in it.
ReadRecord(p) ==
    /\ cache.procs[p].pc \in {"fetch", "write", "writing", "done"}
    /\ cache.procs[p].sawFile.state = "record"

Age(p) == cache.procs[p].readAt - cache.procs[p].sawFile.fetchedAt

\* C5 as claimed: a record written at T and read up to T + 30 days gives
\* back the original payload unchanged without invoking fetch; read later
\* it is a miss, fetch is invoked and a successful fetch that is persisted
\* overwrites the record.
C5_AsClaimed ==
    \A p \in CacheProcs :
        LET me == cache.procs[p]
        IN ReadRecord(p) =>
              IF Age(p) <= 30
              THEN me.hit /\ ~me.fetched /\ me.payload = me.sawFile.orig
              ELSE ~me.hit /\ (me.pc = "done" => me.fetched)

\* C5, the part the code satisfies: a record written at T and read up to
\* T + 30 days is a hit: fetch is not invoked and the stored payload is
\* returned, which is the original JSON value in the layout the cache
\* encoder gave it (the bytes differ from the fetched ones unless the value
\* has a single layout); read after T + 30 days it is a miss: fetch is
\* invoked and, when it succeeds and the write succeeds, the record is
\* overwritten with the new payload and a new fetched_at.
C5_TTL ==
    \A p \in CacheProcs :
        LET me == cache.procs[p]
        IN ReadRecord(p) =>
              IF Age(p) <= 30
              THEN /\ me.hit /\ ~me.fetched /\ me.pc = "done" /\ me.err = ""
                   /\ me.payload = me.sawFile.payload
                   /\ me.payload.json
                   /\ me.payload.val = me.sawFile.orig.val
                   /\ me.payload.layout =
                         (IF me.sawFile.orig.layout = "atom" THEN "atom" ELSE "indented")
              ELSE /\ ~me.hit
                   /\ me.pc = "done" => me.fetched
                   /\ (me.pc = "done" /\ me.err = "" /\ me.werr = "") =>
                         /\ me.payload = me.fetchedPayload
                         /\ cache.file.state = "record"
                         /\ cache.file.orig = me.fetchedPayload
                         /\ cache.file.fetchedAt = me.stamp
                         /\ me.stamp >= me.readAt
                         /\ me.stamp > me.sawFile.fetchedAt + 30

\* A record read exactly 30 days after it was written: a hit that returns
\* the value in another layout than it was fetched in.
C5_Witness ==
    \E p \in CacheProcs :
        /\ ReadRecord(p)
        /\ Age(p) = 30
        /\ cache.procs[p].hit
        /\ cache.procs[p].sawFile.orig.layout = "compact"
        /\ cache.procs[p].payload.val = "A"

\* C6: when the cache missed and fetch succeeded, fetchWithCache returns the
\* fetched payload and no error, whether or not writeCache failed.
C6_WriteFailureSwallowed ==
    \A p \in CacheProcs :
        LET me == cache.procs[p]
        IN (me.pc = "done" /\ me.fetched /\ me.fetchedPayload # NoPayload) =>
              me.err = "" /\ me.payload = me.fetchedPayload

\* fetch succeeded, the write of the record failed half way, and the call
\* returned the payload.
C6_Witness ==
    \E p \in CacheProcs :
        /\ cache.procs[p].pc = "done"
        /\ cache.procs[p].werr = "write failed"
        /\ cache.file = FileCorrupt
        /\ cache.procs[p].payload = Payload(TRUE, "B", "compact")

(***************************************************************************)
(* The evidence resolvers (main.go:375-523).  Every fetchWithCache call    *)
(* of a resolver ends with an error or with a body; which one is the       *)
(* environment's choice, passed to the resolver as a fetch result          *)
(* [err, body].  A body is "badjson" (bytes json.Unmarshal rejects) or the *)
(* decoded document.  calls lists the fetchWithCache calls made, each as   *)
(* the pair (namespace, key).                                              *)
(***************************************************************************)
\* A warning: its text and, for a formatted one, the values formatted in.
Warning(text, args) == [text |-> text, args |-> args]

FetchErr == [err |-> "resource not found", body |-> [kind |-> "none"]]

FetchOK(body) == [err |-> "", body |-> body]

BadJSON == [kind |-> "badjson"]

NoEntry ==
    [PrimaryAccession |-> <<>>, UniProtKBID |-> <<>>, Sequence |-> <<>>,
     Features |-> <<>>, CrossReferences |-> <<>>]

\* decodeUniProtEntry (main.go:412-425)
decodeUniProtEntry(body) ==
    IF body.kind # "entry" THEN [entry |-> NoEntry, err |-> "invalid JSON"]
    ELSE IF body.entry.Sequence = <<>>
    THEN [entry |-> NoEntry, err |-> "missing sequence in UniProt response"]
    ELSE [entry |-> body.entry, err |-> ""]

\* extractFirstAccession (main.go:427-444)
extractFirstAccession(body) ==
    IF body.kind # "search" THEN [accession |-> <<>>, err |-> "invalid JSON"]
    ELSE IF Len(body.results) = 0 \/ body.results[1] = <<>>
    THEN [accession |-> <<>>, err |-> "no UniProt entries found"]
    ELSE [accession |-> body.results[1], err |-> ""]

ResolveResult(entry, warns, err, calls) ==
    [entry |-> entry, warnings |-> warns, err |-> err, calls |-> calls]

\* fetchUniProtEntry (main.go:375-410): direct, search and second are the
\* results of its three fetchWithCache calls (the later two are only
\* looked at when the call is made).
fetchUniProtEntrySilent(identifier, direct, search, second) ==
    LET c1 == <<<<"uniprot", identifier>>>>
        c2 == Append(c1, <<"uniprot-search", identifier>>)
    IN IF direct.err = ""
       THEN LET d == decodeUniProtEntry(direct.body)
            IN ResolveResult(d.entry, <<>>, d.err, c1)
       ELSE IF search.err # ""
       THEN ResolveResult(NoEntry, <<>>, direct.err, c2)
       ELSE LET a == extractFirstAccession(search.body)
            IN IF a.err # ""
               THEN ResolveResult(NoEntry, <<>>, a.err, c2)
               ELSE LET w == <<>>
                        c3 == Append(c2, <<"uniprot", a.accession>>)
                    IN IF second.err # ""
                       THEN ResolveResult(NoEntry, w, second.err, c3)
                       ELSE LET d == decodeUniProtEntry(second.body)
                            IN ResolveResult(d.entry, w, d.err, c3)

fetchUniProtEntry(identifier, direct, search, second) ==
    LET c1 == <<<<"uniprot", identifier>>>>
        c2 == Append(c1, <<"uniprot-search", identifier>>)
    IN IF direct.err = ""
       THEN LET d == decodeUniProtEntry(direct.body)
            IN ResolveResult(d.entry, <<>>, d.err, c1)
       ELSE IF search.err # ""
       THEN ResolveResult(NoEntry, <<>>, direct.err, c2)
       ELSE LET a == extractFirstAccession(search.body)
            IN IF a.err # ""
               THEN ResolveResult(NoEntry, <<>>, a.err, c2)
               ELSE LET w == <<Warning("resolved %q to UniProt accession %s",
                                      <<identifier, a.accession>>)>>
                        c3 == Append(c2, <<"uniprot", a.accession>>)
                    IN IF second.err # ""
                       THEN ResolveResult(NoEntry, w, second.err, c3)
                       ELSE LET d == decodeUniProtEntry(second.body)
                            IN ResolveResult(d.entry, w, d.err, c3)

\* parsePLDDTFromPDB (main.go:488-523) over the lines of the structure
\* file.  A line is a record: its record name, whether it has 66 columns,
\* its atom name, and its residue number and B-factor fields, each either
\* a number or "bad" text (ok = FALSE).
RECURSIVE parseLines(_, _, _, _)
parseLines(lines, i, lastRes, plddt) ==
    IF i > Len(lines) THEN plddt
    ELSE LET line == lines[i]
         IN IF line.rec # "ATOM" \/ ~line.long \/ line.atom # "CA" \/ ~line.resSeq.ok
            THEN parseLines(lines, i + 1, lastRes, plddt)
            ELSE IF line.resSeq.val = lastRes
            THEN parseLines(lines, i + 1, lastRes, plddt)
            ELSE IF ~line.bFactor.ok
            THEN parseLines(lines, i + 1, line.resSeq.val, plddt)
            ELSE parseLines(lines, i + 1, line.resSeq.val,
                            Append(plddt, line.bFactor.val))

parsePLDDTFromPDB(body) ==
    LET plddt == IF body.kind = "pdb" THEN parseLines(body.lines, 1, -1, <<>>)
                 ELSE <<>>
    IN IF Len(plddt) = 0
       THEN [plddt |-> <<>>, err |-> "no CA atoms found for pLDDT extraction"]
       ELSE [plddt |-> plddt, err |-> ""]

ConfidenceResult(plddt, warns, err, calls) ==
    [plddt |-> plddt, warnings |-> warns, err |-> err, calls |-> calls]

\* fetchAlphaFoldPLDDT (main.go:446-486): prediction and pdb are the results
\* of its two fetchWithCache calls.
fetchAlphaFoldPLDDT(accession, prediction, pdb) ==
    LET c1 == <<<<"alphafold", accession>>>>
        c2 == Append(c1, <<"alphafold-pdb", accession>>)
    IN IF prediction.err # ""
       THEN ConfidenceResult(<<>>, <<>>, "alphafold lookup failed: " \o prediction.err, c1)
       ELSE IF prediction.body.kind # "predictions"
       THEN ConfidenceResult(<<>>, <<>>, "invalid JSON", c1)
       ELSE IF Len(prediction.body.predictions) = 0
       THEN ConfidenceResult(<<>>, <<>>, "alphafold response empty", c1)
       ELSE LET first == prediction.body.predictions[1]
            IN IF Len(first.Plddt) > 0
               THEN ConfidenceResult(first.Plddt, <<>>, "", c1)
               ELSE IF first.PdbURL = ""
               THEN ConfidenceResult(<<>>,
                        <<Warning("AlphaFold model lacks pLDDT array and pdbUrl",
                                  <<>>)>>, "", c1)
               ELSE IF pdb.err # ""
               THEN ConfidenceResult(<<>>, <<>>, pdb.err, c2)
               ELSE LET parsed == parsePLDDTFromPDB(pdb.body)
                    IN ConfidenceResult(parsed.plddt, <<>>, parsed.err, c2)

(***************************************************************************)
(* sanitizeSequence (main.go:366-373).                                     *)
(***************************************************************************)
ToUpperResidue(c) ==
    CASE c = "m" -> "M" [] c = "k" -> "K" [] OTHER -> c

IsSpace(c) == c \in {" ", "\n", "\r", "\t"}

RECURSIVE dropSpaces(_)
dropSpaces(s) ==
    IF s = <<>> THEN <<>>
    ELSE IF IsSpace(Head(s)) THEN dropSpaces(Tail(s))
    ELSE <<Head(s)>> \o dropSpaces(Tail(s))

sanitizeSequence(sequence) ==
    dropSpaces([i \in DOMAIN sequence |-> ToUpperResidue(sequence[i])])

(***************************************************************************)
(* parseRegion (main.go:748-763): the pattern ^\s*(\d+)\s*-\s*(\d+)\s*$,   *)
(* strconv.Atoi and strings.TrimSpace on character sequences.              *)
(***************************************************************************)
IsDigit(c) == c \in {"0", "1", "2", "3", "4", "5", "6", "7", "8", "9"}

DigitVal(c) ==
    CASE c = "0" -> 0 [] c = "1" -> 1 [] c = "2" -> 2 [] c = "3" -> 3
      [] c = "4" -> 4 [] c = "5" -> 5 [] c = "6" -> 6 [] c = "7" -> 7
      [] c = "8" -> 8 [] OTHER -> 9

\* The largest int.  The model takes the 32-bit build (int is 32 bits wide
\* there, 64 bits on the other builds, where everything below happens at
\* 2^63 - 1 instead).
IntMax == 2147483647

\* strconv.Atoi on a string of digits: the value, or the largest int and a
\* range error when the value does not fit.
RECURSIVE atoiLoop(_, _, _)
atoiLoop(digits, i, acc) ==
    IF i > Len(digits) THEN acc
    ELSE LET d == DigitVal(digits[i])
         IN IF acc.err \/ acc.val > (IntMax - d) \div 10
            THEN [val |-> IntMax, err |-> TRUE]
            ELSE atoiLoop(digits, i + 1, [val |-> 10 * acc.val + d, err |-> FALSE])

strconvAtoi(digits) == atoiLoop(digits, 1, [val |-> 0, err |-> FALSE])

\* start, _ := strconv.Atoi(...)
Atoi(digits) == strconvAtoi(digits).val

\* The white space of the pattern's \s: tab, newline, form feed, carriage
\* return, space.
PatternSpaces == {" ", "\n", "\r", "\t", "\f"}

\* The white space strings.TrimSpace removes (unicode.IsSpace): that of the
\* pattern and, among others, the vertical tab, written "VT" here.
UnicodeSpaces == PatternSpaces \cup {"VT"}

RECURSIVE TrimLeft(_, _)
TrimLeft(s, spaces) ==
    IF s # <<>> /\ Head(s) \in spaces THEN TrimLeft(Tail(s), spaces) ELSE s

RECURSIVE TrimRight(_, _)
TrimRight(s, spaces) ==
    IF s # <<>> /\ s[Len(s)] \in spaces
    THEN TrimRight(SubSeq(s, 1, Len(s) - 1), spaces) ELSE s

TrimSpace(s) == TrimRight(TrimLeft(s, UnicodeSpaces), UnicodeSpaces)

AllDigits(s) == s # <<>> /\ \A i \in DOMAIN s : IsDigit(s[i])

\* The submatches of the pattern, or ok = FALSE when it does not match.
matchRange(region) ==
    LET t == TrimRight(TrimLeft(region, PatternSpaces), PatternSpaces)
        dashes == {k \in DOMAIN t : t[k] = "-"}
    IN IF Cardinality(dashes) # 1
       THEN [ok |-> FALSE, first |-> <<>>, second |-> <<>>]
       ELSE LET k == CHOOSE k \in dashes : TRUE
                a == TrimRight(SubSeq(t, 1, k - 1), PatternSpaces)
                b == TrimLeft(SubSeq(t, k + 1, Len(t)), PatternSpaces)
            IN IF AllDigits(a) /\ AllDigits(b)
               THEN [ok |-> TRUE, first |-> a, second |-> b]
               ELSE [ok |-> FALSE, first |-> <<>>, second |-> <<>>]

parseRegion(region) ==
    IF region = <<>> THEN [range |-> Nil, name |-> <<>>, err |-> ""]
    ELSE LET m == matchRange(region)
         IN IF m.ok
            THEN LET start == Atoi(m.first)
                     end == Atoi(m.second)
                 IN IF start <= 0 \/ end <= 0 \/ start > end
                    THEN [range |-> Nil, name |-> <<>>,
                          err |-> "region range must be start-end with start <= end"]
                    ELSE [range |-> Ptr(Rng(start, end, <<>>)), name |-> <<>>,
                          err |-> ""]
            ELSE [range |-> Nil, name |-> TrimSpace(region), err |-> ""]

(***************************************************************************)
(* The feature normalizer (main.go:633-715).  A feature is a record of its *)
(* Type, its Description (a character sequence) and its Location, whose    *)
(* Start, End and Position are pointers.                                   *)
(***************************************************************************)
\* strings.ToUpper on the feature types and database names of the inputs.
ToUpperWord(t) ==
    CASE t = "Domain" -> "DOMAIN"
      [] t = "Region" -> "REGION"
      [] t = "Helix" -> "HELIX"
      [] t = "strand" -> "STRAND"
      [] t = "act_site" -> "ACT_SITE"
      [] t = "mod_res" -> "MOD_RES"
      [] t = "Disulfid" -> "DISULFID"
      [] t = "lipid" -> "LIPID"
      [] t = "pdb" -> "PDB"
      [] OTHER -> t

\* featureRange (main.go:707-715)
featureRange(location) ==
    IF location.Position # Nil
    THEN [start |-> location.Position[1], end |-> location.Position[1]]
    ELSE IF location.Start # Nil /\ location.End # Nil
    THEN [start |-> location.Start[1], end |-> location.End[1]]
    ELSE [start |-> 0, end |-> 0]

NoFeatures ==
    [domains |-> <<>>, helixes |-> <<>>, strands |-> <<>>,
     activeSites |-> <<>>, ptmPositions |-> <<>>]

RECURSIVE extractLoop(_, _, _)
extractLoop(features, i, acc) ==
    IF i > Len(features) THEN acc
    ELSE LET feature == features[i]
             r == featureRange(feature.Location)
             info == Rng(r.start, r.end, feature.Description)
             type == ToUpperWord(feature.Type)
         IN IF r.start = 0 \/ r.end = 0 THEN extractLoop(features, i + 1, acc)
            ELSE extractLoop(features, i + 1,
                CASE type \in {"DOMAIN", "REGION", "REPEAT"} ->
                        [acc EXCEPT !.domains = Append(@, info)]
                  [] type = "HELIX" -> [acc EXCEPT !.helixes = Append(@, info)]
                  [] type = "STRAND" -> [acc EXCEPT !.strands = Append(@, info)]
                  [] type = "ACT_SITE" -> [acc EXCEPT !.activeSites = Append(@, info)]
                  [] type \in {"MOD_RES", "CARBOHYD", "LIPID", "DISULFID",
                               "CROSSLINK", "METAL"} ->
                        [acc EXCEPT !.ptmPositions = Append(@, r.start)]
                  [] OTHER -> acc)

extractFeatures(features) == extractLoop(features, 1, NoFeatures)

\* extractPDBRanges (main.go:662-705).  The Chains property of a
\* cross-reference is given as the list of its spans; a span is the pair of
\* the texts around its "-", or malformed (wellFormed = FALSE) when it does
\* not split in two or a part is no number.
RECURSIVE spanLoop(_, _, _, _)
spanLoop(id, spans, i, ranges) ==
    IF i > Len(spans) THEN ranges
    ELSE IF ~spans[i].wellFormed \/ ~AllDigits(spans[i].first)
            \/ ~AllDigits(spans[i].second)
            \/ strconvAtoi(spans[i].first).err \/ strconvAtoi(spans[i].second).err
    THEN spanLoop(id, spans, i + 1, ranges)
    ELSE spanLoop(id, spans, i + 1,
             Append(ranges, Pdb(id, Atoi(spans[i].first), Atoi(spans[i].second))))

RECURSIVE refLoop(_, _, _)
refLoop(crossRefs, i, ranges) ==
    IF i > Len(crossRefs) THEN ranges
    ELSE IF ToUpperWord(crossRefs[i].Database) # "PDB"
    THEN refLoop(crossRefs, i + 1, ranges)
    ELSE refLoop(crossRefs, i + 1,
             spanLoop(crossRefs[i].ID, crossRefs[i].Chains, 1, ranges))

extractPDBRanges(crossRefs) == refLoop(crossRefs, 1, <<>>)

(***************************************************************************)
(* The documents the upstream services can answer with.                    *)
(***************************************************************************)
Loc(start, end, position) == [Start |-> start, End |-> end, Position |-> position]

Feature(type, description, location) ==
    [Type |-> type, Description |-> description, Location |-> location]

Span(first, second) == [wellFormed |-> TRUE, first |-> first, second |-> second]

BadSpan == [wellFormed |-> FALSE, first |-> <<>>, second |-> <<>>]

CrossRef(database, id, chains) ==
    [Database |-> database, ID |-> id, Chains |-> chains]

Residues(n) == [i \in 1..n |-> IF i % 2 = 0 THEN "K" ELSE "M"]

\* The same residues as typed by hand: lower case, with white space.
RawResidues(n) ==
    <<" ">> \o [i \in 1..n |-> IF i % 2 = 0 THEN "k" ELSE "M"] \o <<"\n">>

EntryFull ==
    [PrimaryAccession |-> <<"P", "1">>,
     UniProtKBID |-> <<"K", "B">>,
     Sequence |-> Residues(SeqLen),
     Features |-> <<Feature("Domain", Kin, Loc(Ptr(3), Ptr(8), Nil)),
                    Feature("Region", SH, Loc(Ptr(5), Nil, Nil)),
                    Feature("Helix", <<>>, Loc(Ptr(3), Ptr(5), Nil)),
                    Feature("act_site", <<>>, Loc(Nil, Nil, Ptr(8))),
                    Feature("mod_res", <<>>, Loc(Nil, Nil, Ptr(6))),
                    Feature("Chain", <<>>, Loc(Ptr(1), Ptr(SeqLen), Nil))>>,
     CrossReferences |-> <<CrossRef("EMBL", <<"X">>, <<Span(<<"1">>, <<"2">>)>>),
                           CrossRef("pdb", <<"2", "B">>,
                                    <<Span(<<"3">>, <<"8">>), BadSpan,
                                      Span(<<"0">>, <<"7">>),
                                      Span(<<"x">>, <<"7">>)>>)>>]

EntryPlain ==
    [PrimaryAccession |-> <<"P", "2">>,
     UniProtKBID |-> <<>>,
     Sequence |-> Residues(SeqLen),
     Features |-> <<>>,
     CrossReferences |-> <<>>]

EntryAnon ==
    [PrimaryAccession |-> <<>>,
     UniProtKBID |-> <<"K", "B">>,
     Sequence |-> RawResidues(SeqLen),
     Features |-> <<Feature("Domain", Kin, Loc(Ptr(3), Ptr(8), Nil))>>,
     CrossReferences |-> <<>>]

EntryNoSeq == [EntryPlain EXCEPT !.Sequence = <<>>]

EntryBlank == [EntryPlain EXCEPT !.Sequence = <<" ", "\n">>]

EntryBody(entry) == [kind |-> "entry", entry |-> entry]

SearchBody(results) == [kind |-> "search", results |-> results]

DirectResults ==
    {FetchErr, FetchOK(BadJSON)} \cup
    { FetchOK(EntryBody(e)) :
        e \in {EntryFull, EntryPlain, EntryAnon, EntryNoSeq, EntryBlank} }

SearchResults ==
    { FetchErr, FetchOK(BadJSON),
      FetchOK(SearchBody(<<>>)),
      FetchOK(SearchBody(<< <<>> >>)),
      FetchOK(SearchBody(<< <<"P", "1">>, <<"P", "2">> >>)) }

Prediction(plddt, pdbURL) == [Plddt |-> plddt, PdbURL |-> pdbURL]

PredictionsBody(predictions) == [kind |-> "predictions", predictions |-> predictions]

PredictionResults ==
    { FetchErr, FetchOK(BadJSON),
      FetchOK(PredictionsBody(<<>>)),
      FetchOK(PredictionsBody(<<Prediction(Pl(SeqLen, 4, 9, <<90, 49, 90>>), "u")>>)),
      FetchOK(PredictionsBody(<<Prediction(Pl(SeqLen - 2, 4, 9, <<49, 90, 50>>), "")>>)),
      FetchOK(PredictionsBody(<<Prediction(<<>>, "")>>)),
      FetchOK(PredictionsBody(<<Prediction(<<>>, "u")>>)) }

Field(val) == [ok |-> TRUE, val |-> val]

BadField == [ok |-> FALSE, val |-> 0]

Line(rec, long, atom, resSeq, bFactor) ==
    [rec |-> rec, long |-> long, atom |-> atom, resSeq |-> resSeq,
     bFactor |-> bFactor]

\* A structure file: per residue its N and CA atoms, the CA of residue 3
\* twice, and a short line, a hetero atom and an unreadable residue number.
PdbLines(n) ==
    LET atoms(i) ==
            <<Line("ATOM", TRUE, "N", Field(i), Field(Pl(n, 4, 9, <<90, 49, 90>>)[i])),
              Line("ATOM", TRUE, "CA", Field(i), Field(Pl(n, 4, 9, <<90, 49, 90>>)[i]))>>
            \o (IF i = 3 THEN <<Line("ATOM", TRUE, "CA", Field(i), Field(10))>>
                ELSE <<>>)
        F[i \in 0..n] == IF i = 0 THEN <<>> ELSE F[i - 1] \o atoms(i)
    IN F[n] \o <<Line("ATOM", FALSE, "CA", Field(n + 1), Field(10)),
                 Line("HETATM", TRUE, "CA", Field(n + 2), Field(10)),
                 Line("ATOM", TRUE, "CA", BadField, Field(10))>>

PdbBody(lines) == [kind |-> "pdb", lines |-> lines]

PDBFileResults ==
    { FetchErr,
      FetchOK(PdbBody(<<Line("HETATM", TRUE, "CA", Field(1), Field(10)),
                        Line("ATOM", TRUE, "CA", Field(1), BadField)>>)),
      FetchOK(PdbBody(PdbLines(SeqLen))) }

UniprotInputs == {<<>>, <<"q">>}

SequenceInputs == {<<>>, <<" ">>, RawResidues(SeqLen)}

NameInputs == {<<>>, <<"n">>}

RegionFlagInputs ==
    { <<>>,
      <<" ", "3", " ", "-", "8", " ">>,
      <<"8", "-", "3">>,
      <<"2", "-", "1", "9">>,
      <<" ", "K", "i", " ">> }

MinLengthFlagInputs == {0, 4}

OutputInputs ==
    { [jsonOut |-> TRUE, plotPath |-> ""],
      [jsonOut |-> FALSE, plotPath |-> ""],
      [jsonOut |-> FALSE, plotPath |-> "plot.txt"] }

(***************************************************************************)
(* main (main.go:210-353).  env holds main's flags and locals that are not *)
(* variables of their own: identifier, sequence, name, region, jsonOut,    *)
(* plotPath, entry, plddt; and, to state properties, the results the two   *)
(* resolvers returned in this run (resolved, conf).                        *)
(***************************************************************************)
defaultMinLength == 100

Notice == Warning("IUPred/PSIPRED not integrated", <<>>)

NoResolve == ResolveResult(NoEntry, <<>>, "", <<>>)

NoConfidence == ConfidenceResult(<<>>, <<>>, "", <<>>)

\* fatalf that exits without a message.
fatalfSilent(msg) == /\ stderr' = stderr
                     /\ pc' = "fatal"

\* fatalf (main.go:1261-1264): the message goes to the error stream and the
\* process exits with status 1 (pc = "fatal").
fatalf(msg) == /\ stderr' = Append(stderr, msg)
               /\ pc' = "fatal"

\* main.go:232-245
MainArgs ==
    /\ pc = "args"
    /\ IF env.sequence = <<>> /\ env.identifier = <<>>
       THEN /\ fatalf("provide --uniprot or --sequence")
            /\ UNCHANGED <<minLength, warnings>>
       ELSE IF env.sequence # <<>> /\ env.name = <<>>
       THEN /\ fatalf("provide --name with --sequence")
            /\ UNCHANGED <<minLength, warnings>>
       ELSE /\ minLength' = IF minLength <= 0 THEN defaultMinLength ELSE minLength
            /\ warnings' = Append(warnings, Notice)
            /\ pc' = "resolve"
            /\ stderr' = stderr
    /\ UNCHANGED <<ctx, regionRange, regionName, maxLength, candidates, scored,
                   top, stdout, http, cache, env>>

\* The name main falls back to (main.go:255-260).
defaultName(name, entry) ==
    IF name # <<>> THEN name
    ELSE IF entry.UniProtKBID # <<>> THEN entry.UniProtKBID
    ELSE entry.PrimaryAccession

\* main.go:247-266
MainResolve ==
    /\ pc = "resolve"
    /\ IF env.sequence = <<>>
       THEN \E direct \in DirectResults, search \in SearchResults,
               second \in DirectResults :
               LET res == fetchUniProtEntry(env.identifier, direct, search, second)
                   seq == sanitizeSequence(res.entry.Sequence)
               IN /\ warnings' = res.warnings
                  /\ env' = [env EXCEPT !.entry = res.entry,
                                        !.resolved = res,
                                        !.resolveCalled = TRUE,
                                        !.replies = SubSeq(<<direct, search, second>>,
                                                           1, Len(res.calls)),
                                        !.sequence = IF res.err = "" THEN seq ELSE @,
                                        !.name = IF res.err = ""
                                                 THEN defaultName(@, res.entry) ELSE @]
                  /\ IF res.err # ""
                     THEN fatalf("failed to fetch UniProt entry")
                     ELSE IF seq = <<>>
                     THEN fatalf("sequence is empty after sanitization")
                     ELSE pc' = "confidence" /\ stderr' = stderr
       ELSE LET seq == sanitizeSequence(env.sequence)
            IN /\ warnings' = warnings
               /\ env' = [env EXCEPT !.sequence = seq]
               /\ IF seq = <<>>
                  THEN fatalf("sequence is empty after sanitization")
                  ELSE pc' = "confidence" /\ stderr' = stderr
    /\ UNCHANGED <<ctx, regionRange, regionName, minLength, maxLength,
                   candidates, scored, top, stdout, http, cache>>

\* What main does with the result of fetchAlphaFoldPLDDT (main.go:272-277):
\* the error, if any, becomes a warning; the run goes on.
afterConfidenceFatal(warns, res) ==
    [fatal |-> res.err # "",
     warnings |-> warns \o res.warnings]

afterConfidence(warns, res) ==
    [fatal |-> FALSE,
     warnings |-> (IF res.err # "" THEN Append(warns, Warning(res.err, <<>>))
                   ELSE warns)
                  \o res.warnings]

lengthWarning(warns, plddt, sequence) ==
    IF Len(plddt) > 0 /\ Len(plddt) # Len(sequence)
    THEN Append(warns, Warning("pLDDT length (%d) does not match sequence length (%d)",
                               <<Itoa(Len(plddt)), Itoa(Len(sequence))>>))
    ELSE warns

\* main.go:268-280
MainConfidence ==
    /\ pc = "confidence"
    /\ IF env.entry.PrimaryAccession # <<>>
       THEN \E prediction \in PredictionResults, pdb \in PDBFileResults :
               LET res == fetchAlphaFoldPLDDT(env.entry.PrimaryAccession,
                                              prediction, pdb)
                   after == afterConfidence(warnings, res)
               IN /\ env' = [env EXCEPT !.plddt = res.plddt, !.conf = res,
                                        !.confCalled = TRUE]
                  /\ warnings' = lengthWarning(after.warnings, res.plddt, env.sequence)
                  /\ IF after.fatal
                     THEN fatalf(res.err)
                     ELSE pc' = "features" /\ stderr' = stderr
       ELSE /\ env' = env
            /\ warnings' = lengthWarning(warnings, env.plddt, env.sequence)
            /\ pc' = "features"
            /\ stderr' = stderr
    /\ UNCHANGED <<ctx, regionRange, regionName, minLength, maxLength,
                   candidates, scored, top, stdout, http, cache>>

\* main.go:282-296
MainFeatures ==
    /\ pc = "features"
    /\ LET f == extractFeatures(env.entry.Features)
       IN ctx' = makeContext(Len(env.sequence), env.plddt, f.domains,
                             extractPDBRanges(env.entry.CrossReferences),
                             [Helix |-> f.helixes, Strand |-> f.strands,
                              Active |-> f.activeSites, PTM |-> f.ptmPositions])
    /\ pc' = "region"
    /\ UNCHANGED <<regionRange, regionName, minLength, maxLength, candidates,
                   scored, top, warnings, stdout, stderr, http, cache, env>>

\* main.go:298-301
MainRegion ==
    /\ pc = "region"
    /\ LET r == parseRegion(env.region)
       IN IF r.err # ""
          THEN /\ fatalf("invalid --region")
               /\ UNCHANGED <<regionRange, regionName>>
          ELSE /\ regionRange' = r.range
               /\ regionName' = r.name
               /\ pc' = "build"
               /\ stderr' = stderr
    /\ UNCHANGED <<ctx, minLength, maxLength, candidates, scored, top,
                   warnings, stdout, http, cache, env>>

\* main.go:320-353: the structured record, or the table and the ASCII map
\* and then the plot file.  Writing may fail once output has begun.
MainPresent ==
    /\ pc = "present"
    /\ IF env.jsonOut
       THEN \/ /\ stdout' = Append(stdout, [kind |-> "json", predictions |-> top,
                                            warnings |-> warnings])
               /\ pc' = "done"
               /\ stderr' = stderr
            \/ /\ stdout' = Append(stdout, [kind |-> "partial json",
                                            predictions |-> <<>>, warnings |-> <<>>])
               /\ fatalf("failed to write JSON")
       ELSE LET text == <<[kind |-> "summary", predictions |-> top,
                           warnings |-> warnings],
                          [kind |-> "ascii", predictions |-> SubSeq(top, 1, min(3, Len(top))),
                           warnings |-> <<>>]>>
            IN IF env.plotPath = ""
               THEN /\ stdout' = stdout \o text
                    /\ pc' = "done"
                    /\ stderr' = stderr
               ELSE \/ /\ stdout' = stdout \o text \o
                              <<[kind |-> "plot file",
                                 predictions |-> SubSeq(top, 1, min(3, Len(top))),
                                 warnings |-> <<>>]>>
                       /\ pc' = "done"
                       /\ stderr' = stderr
                    \/ /\ stdout' = stdout \o text
                       /\ fatalf("failed to write plot")
    /\ UNCHANGED <<ctx, regionRange, regionName, minLength, maxLength,
                   candidates, scored, top, warnings, http, cache, env>>

InitMain ==
    /\ pc = "args"
    /\ ctx = NoContext
    /\ regionRange = Nil
    /\ regionName = <<>>
    /\ minLength \in MinLengthFlagInputs
    /\ maxLength \in MaxLengthInputs
    /\ candidates = <<>>
    /\ scored = <<>>
    /\ top = <<>>
    /\ warnings = <<>>
    /\ stdout = <<>>
    /\ stderr = <<>>
    /\ http = HttpIdle
    /\ cache = CacheIdle
    /\ \E identifier \in UniprotInputs, sequence \in SequenceInputs,
          name \in NameInputs, region \in RegionFlagInputs, out \in OutputInputs :
          env = [identifier |-> identifier, sequence |-> sequence, name |-> name,
                 region |-> region, jsonOut |-> out.jsonOut,
                 plotPath |-> out.plotPath, entry |-> NoEntry, plddt |-> <<>>,
                 resolveCalled |-> FALSE, resolved |-> NoResolve, replies |-> <<>>,
                 confCalled |-> FALSE, conf |-> NoConfidence]

NextMain ==
    \/ MainArgs
    \/ MainResolve
    \/ MainConfidence
    \/ MainFeatures
    \/ MainRegion
    \/ BuildCandidates
    \/ ScoreCandidates
    \/ RankCandidates
    \/ MainPresent

SpecMain == InitMain /\ [][NextMain]_vars

(***************************************************************************)
(* Properties of the primary-record resolver, over the run of main that    *)
(* called it: env.resolved is what it returned, env.replies the replies    *)
(* its fetchWithCache calls got, in the order of env.resolved.calls.       *)
(***************************************************************************)
DirectCall == <<"uniprot", env.identifier>>

SearchCall == <<"uniprot-search", env.identifier>>

DirectFetchFailed == env.replies[1].err # ""

DirectUndecodable ==
    /\ env.replies[1].err = ""
    /\ decodeUniProtEntry(env.replies[1].body).err # ""

FirstAccession == env.replies[2].body.results[1]

IndirectWarning ==
    Warning("resolved %q to UniProt accession %s", <<env.identifier, FirstAccession>>)

FallbackMade == Len(env.resolved.calls) >= 2 /\ env.resolved.calls[2] = SearchCall

\* C9 as the specification words it: the resolver first looks the identifier
\* up directly; WHENEVER that lookup fails -- the record cannot be fetched,
\* or what is fetched is no record with a sequence -- it makes the fallback
\* search; a resolution through the fallback returns the warning, a direct
\* one returns none.
C9_AsClaimed ==
    env.resolveCalled =>
        /\ env.resolved.calls[1] = DirectCall
        /\ (DirectFetchFailed \/ DirectUndecodable) => FallbackMade
        /\ (env.resolved.err = "" /\ Len(env.resolved.calls) = 3)
               => IndirectWarning \in Range(env.resolved.warnings)
        /\ (env.resolved.err = "" /\ Len(env.resolved.calls) = 1)
               => env.resolved.warnings = <<>>

\* C9, amended: the resolver first looks the identifier up directly.  The
\* fallback search is made exactly when the direct FETCH fails; a direct
\* reply that arrives but is undecodable or has no sequence ends the
\* resolution with that decoding error, without search and without
\* warning.  When the search cannot be fetched the direct lookup's error is
\* returned.  When the search yields a first accession that accession is
\* looked up directly (third call), and a resolution that succeeds this
\* way returns the record of that lookup and exactly one warning, naming
\* the identifier and the accession; a resolution that succeeds directly
\* returns the directly fetched record and no warning.
C9_FallbackOnFetchFailure ==
    env.resolveCalled =>
        LET res == env.resolved
            n == Len(res.calls)
        IN /\ n \in 1..3
           /\ Len(env.replies) = n
           /\ res.calls[1] = DirectCall
           /\ DirectFetchFailed <=> n >= 2
           /\ n >= 2 => res.calls[2] = SearchCall
           /\ DirectUndecodable =>
                  /\ n = 1
                  /\ res.err = decodeUniProtEntry(env.replies[1].body).err
                  /\ res.warnings = <<>>
           /\ (n = 2 /\ env.replies[2].err # "") => res.err = env.replies[1].err
           /\ n = 3 <=> /\ n >= 2
                        /\ env.replies[2].err = ""
                        /\ env.replies[2].body.kind = "search"
                        /\ Len(env.replies[2].body.results) > 0
                        /\ env.replies[2].body.results[1] # <<>>
           /\ n = 3 => res.calls[3] = <<"uniprot", FirstAccession>>
           /\ (res.err = "" /\ n = 3) =>
                  /\ res.warnings = <<IndirectWarning>>
                  /\ res.entry = env.replies[3].body.entry
           /\ (res.err = "" /\ n = 1) =>
                  /\ res.warnings = <<>>
                  /\ res.entry = env.replies[1].body.entry
           /\ res.err = "" => n # 2

\* A resolution of "q" that succeeded through the fallback.
C9_Witness ==
    /\ env.resolveCalled
    /\ env.resolved.err = ""
    /\ Len(env.resolved.calls) = 3
    /\ env.replies[1] = FetchErr
    /\ env.entry = EntryFull
    /\ warnings = <<IndirectWarning>>
    /\ pc = "confidence"

(***************************************************************************)
(* Properties of the confidence stage.                                     *)
(***************************************************************************)
\* The confidence resolver was called and yielded no data.
ConfidenceFailed == env.confCalled /\ Len(env.conf.plddt) = 0

DegradationWarnings ==
    Range(env.conf.warnings) \cup
    (IF env.conf.err # "" THEN {Warning(env.conf.err, <<>>)} ELSE {})

LastError == stderr[Len(stderr)]

WriteFailures == {"failed to write JSON", "failed to write plot"}

\* The candidates of this run, had the confidence lookup delivered plddt.
candidatesWith(plddt) ==
    buildCandidates(regionRange, regionName, ctx.DomainRanges, ctx.PDBRanges,
                    computeDisorderedRegions(plddt, ctx.Length),
                    minLength, maxLength)

DeliverablePlddt ==
    { fetchAlphaFoldPLDDT(env.entry.PrimaryAccession, prediction, pdb).plddt :
        prediction \in PredictionResults, pdb \in PDBFileResults } \ {<<>>}

\* C10 as the specification words it, read in its favour: a failed
\* confidence resolution never aborts the invocation and the run still
\* produces ranked output -- at least whenever the region is well-formed,
\* the output can be written, and the same run would have had a candidate
\* with confidence data.
C10_AsClaimed ==
    (ConfidenceFailed /\ pc = "fatal") =>
        \/ LastError = "invalid --region"
        \/ LastError \in WriteFailures
        \/ \A plddt \in DeliverablePlddt : candidatesWith(plddt) = <<>>

\* C10, amended: a failure anywhere in confidence resolution never aborts
\* the invocation by itself: the stage after it is entered with an empty
\* confidence array, the context gets an all-false disorder mask over the
\* sequence, and the warnings from then on contain at least one warning
\* describing the degradation (the resolver's error, or its warning that
\* array and URL are both missing), up to the warnings written with the
\* output.  A run that ends normally has written the ranked, non-empty
\* prefix.  The run can still end fatally, only for a malformed region, for
\* zero surviving candidates (which the degradation can itself cause, the
\* whole sequence being the only ordered run then), or for a failed write
\* of the output.
C10_ConfidenceFailureDegrades ==
    ConfidenceFailed =>
        /\ pc \notin {"args", "resolve", "confidence"}
        /\ env.plddt = <<>>
        /\ ctx.Length > 0 =>
               /\ ctx.Length = Len(env.sequence)
               /\ ctx.PLDDT = <<>>
               /\ ctx.Disorder = [i \in 1..Len(env.sequence) |-> FALSE]
        /\ DegradationWarnings # {}
        /\ DegradationWarnings \subseteq Range(warnings)
        /\ pc = "done" =>
               /\ Len(top) > 0
               /\ stdout[1].predictions = top
               /\ DegradationWarnings \subseteq Range(stdout[1].warnings)
        /\ pc = "fatal" =>
               LastError \in WriteFailures \cup
                   {"invalid --region",
                    "no construct candidates found with current filters"}

\* A run whose confidence lookup failed with an error and that has written
\* its ranked output.
C10_Witness ==
    /\ ConfidenceFailed
    /\ env.conf.err # ""
    /\ pc = "done"
    /\ Len(top) > 0
    /\ Len(stdout) > 0

(***************************************************************************)
(* Properties of the fatal exits of main.                                  *)
(***************************************************************************)
\* The exit status of the process once it has ended (os.Exit(1) in fatalf,
\* return from main otherwise).
ExitStatus == IF pc = "fatal" THEN 1 ELSE 0

Ended == pc \in {"fatal", "done"}

\* The step ends the process through fatalf with this message, nothing
\* written to the output.
FatalStep(msg) ==
    /\ pc' = "fatal"
    /\ stderr' = <<msg>>
    /\ stdout' = <<>>

\* C11: each of the fatal conditions -- neither identifier nor sequence,
\* sequence without name, identifier resolved by neither the direct nor the
\* fallback path, malformed region, zero candidates after filtering -- ends
\* the invocation in the step that meets it, with exit status 1 and one
\* message on the error stream, and nothing of the result has been written
\* then (no JSON record, table, ASCII map or plot file).
C11_FatalBeforeOutput ==
    /\ [](Ended /\ ExitStatus = 1
             => /\ Len(stderr) = 1
                /\ LastError \notin WriteFailures => stdout = <<>>)
    /\ [](Ended /\ ExitStatus = 0 => stderr = <<>>)
    /\ [][(pc = "args" /\ env.sequence = <<>> /\ env.identifier = <<>>)
             => FatalStep("provide --uniprot or --sequence")]_vars
    /\ [][(pc = "args" /\ env.sequence # <<>> /\ env.name = <<>>)
             => FatalStep("provide --name with --sequence")]_vars
    /\ [][(pc = "resolve" /\ env'.resolveCalled /\ env'.resolved.err # "")
             => FatalStep("failed to fetch UniProt entry")]_vars
    /\ [][(pc = "region" /\ parseRegion(env.region).err # "")
             => FatalStep("invalid --region")]_vars
    /\ [][(pc = "score" /\ Len(scored') = 0)
             => FatalStep("no construct candidates found with current filters")]_vars

\* An identifier that was resolved over the fallback, whose run then ended
\* on a malformed region with nothing written.
C11_Witness ==
    /\ pc = "fatal"
    /\ stderr = <<"invalid --region">>
    /\ stdout = <<>>
    /\ env.resolveCalled
    /\ Len(env.resolved.calls) = 3

(***************************************************************************)
(* The disorder computer on its own: main.go:278-284 applied to every      *)
(* small confidence array and sequence length, then the two run            *)
(* compressors (main.go:331 and 809) applied to the mask.  env holds the   *)
(* inputs plddt and length and the results disorder, disordered, ordered.  *)
(***************************************************************************)
MaxMask == 4

ConfidenceValues == {49, 50, 90}

\* The array of TestComputeDisorderedRegions.
TestPlddt == <<80, 40, 30, 90, 60, 49>>

ConfidenceArrays ==
    UNION { [1..n -> ConfidenceValues] : n \in 0..MaxMask } \cup {TestPlddt}

LengthInputs == 0..(MaxMask + 2)

\* main.go:278-284
DisorderMask ==
    /\ pc = "mask"
    /\ warnings' = lengthWarning(warnings, env.plddt, Residues(env.length))
    /\ env' = [env EXCEPT !.disorder = computeDisorderedRegions(env.plddt, env.length)]
    /\ pc' = "runs"
    /\ UNCHANGED <<ctx, regionRange, regionName, minLength, maxLength, candidates,
                   scored, top, stdout, stderr, http, cache>>

\* compressDisorder(disordered) at main.go:331/343 and
\* orderedRanges(disordered) at main.go:809.
DisorderRuns ==
    /\ pc = "runs"
    /\ env' = [env EXCEPT !.disordered = compressDisorder(env.disorder),
                          !.ordered = orderedRanges(env.disorder)]
    /\ pc' = "ranges"
    /\ UNCHANGED <<ctx, regionRange, regionName, minLength, maxLength, candidates,
                   scored, top, warnings, stdout, stderr, http, cache>>

InitDisorder ==
    /\ pc = "mask"
    /\ ctx = NoContext
    /\ regionRange = Nil
    /\ regionName = <<>>
    /\ minLength = 0
    /\ maxLength = 0
    /\ candidates = <<>>
    /\ scored = <<>>
    /\ top = <<>>
    /\ warnings = <<>>
    /\ stdout = <<>>
    /\ stderr = <<>>
    /\ http = HttpIdle
    /\ cache = CacheIdle
    /\ \E plddt \in ConfidenceArrays, length \in LengthInputs :
          env = [plddt |-> plddt, length |-> length, disorder |-> <<>>,
                 disordered |-> <<>>, ordered |-> <<>>]

NextDisorder == DisorderMask \/ DisorderRuns

SpecDisorder == InitDisorder /\ [][NextDisorder]_vars

MaskComputed == pc \in {"runs", "ranges"}

\* C12: position i of the mask (1-indexed here, i-1 in the code) is
\* disordered exactly when the confidence array reaches it and its value is
\* below 50 -- 49 is disordered, 50 is not; with an empty array the mask is
\* all false and has the requested length; the array of the test gives
\* false, true, true, false, false, true.
C12_DisorderThreshold ==
    MaskComputed =>
        /\ DOMAIN env.disorder = 1..env.length
        /\ \A i \in 1..env.length :
              env.disorder[i] <=> (i <= Len(env.plddt) /\ env.plddt[i] < 50)
        /\ \A i \in 1..env.length :
              /\ (i <= Len(env.plddt) /\ env.plddt[i] = 49) => env.disorder[i]
              /\ (i <= Len(env.plddt) /\ env.plddt[i] = 50) => ~env.disorder[i]
        /\ env.plddt = <<>> => env.disorder = [i \in 1..env.length |-> FALSE]
        /\ (env.plddt = TestPlddt /\ env.length = 6)
              => env.disorder = <<FALSE, TRUE, TRUE, FALSE, FALSE, TRUE>>

\* The mask of the test array.
C12_Witness ==
    /\ MaskComputed
    /\ env.plddt = TestPlddt
    /\ env.length = 6
    /\ env.disorder = <<FALSE, TRUE, TRUE, FALSE, FALSE, TRUE>>

\* C13 as the specification words it: the mask is as long as the confidence
\* array, capped at the sequence length, or as long as the sequence and all
\* false when the array is empty.
C13_AsClaimed ==
    MaskComputed =>
        IF env.plddt = <<>>
        THEN env.disorder = [i \in 1..env.length |-> FALSE]
        ELSE Len(env.disorder) = min(Len(env.plddt), env.length)

\* C13, amended: the mask always has the length of the sequence; its
\* positions up to the shorter of the two lengths are thresholded, every
\* position after the end of the confidence array is false (all of them
\* when the array is empty), and positions of the array beyond the sequence
\* are ignored.  A mismatch of the lengths is no error: it adds one warning
\* naming both lengths, nothing is written to the error stream and the run
\* goes on.
C13_MaskLength ==
    MaskComputed =>
        LET shorter == min(Len(env.plddt), env.length)
            mismatch == Warning("pLDDT length (%d) does not match sequence length (%d)",
                                <<Itoa(Len(env.plddt)), Itoa(env.length)>>)
        IN /\ Len(env.disorder) = env.length
           /\ \A i \in 1..shorter : env.disorder[i] <=> env.plddt[i] < 50
           /\ \A i \in (shorter + 1)..env.length : ~env.disorder[i]
           /\ warnings = IF Len(env.plddt) > 0 /\ Len(env.plddt) # env.length
                         THEN <<mismatch>> ELSE <<>>
           /\ stderr = <<>>
           /\ pc # "fatal"

\* A confidence array shorter than the sequence: the mask is as long as the
\* sequence.
C13_Witness ==
    /\ MaskComputed
    /\ env.plddt = <<49, 50>>
    /\ env.length = 4
    /\ env.disorder = <<TRUE, FALSE, FALSE, FALSE>>
    /\ Len(warnings) = 1

RunsComputed == pc = "ranges"

InRun(i, r) == r.Start <= i /\ i <= r.End

\* r is a maximal run of the value v in the mask, in 1-indexed inclusive
\* coordinates.
MaximalRun(mask, r, v) ==
    /\ 1 <= r.Start /\ r.Start <= r.End /\ r.End <= Len(mask)
    /\ \A i \in r.Start..r.End : mask[i] = v
    /\ r.Start = 1 \/ mask[r.Start - 1] # v
    /\ r.End = Len(mask) \/ mask[r.End + 1] # v

\* C14: for a mask of length L >= 1 the disordered runs and the ordered
\* runs partition 1..L: every position lies in exactly one range, every
\* range is a maximal run of equal mask values (true for the disordered
\* runs, false for the ordered ones), and the runs at position 1 and at
\* position L are among them.
C14_RunsPartition ==
    (RunsComputed /\ Len(env.disorder) >= 1) =>
        LET mask == env.disorder
            L == Len(mask)
            covering(i) ==
                Cardinality({k \in DOMAIN env.disordered : InRun(i, env.disordered[k])})
                + Cardinality({k \in DOMAIN env.ordered : InRun(i, env.ordered[k])})
        IN /\ \A i \in 1..L : covering(i) = 1
           /\ \A k \in DOMAIN env.disordered : MaximalRun(mask, env.disordered[k], TRUE)
           /\ \A k \in DOMAIN env.ordered : MaximalRun(mask, env.ordered[k], FALSE)
           /\ \E r \in Range(env.disordered) \cup Range(env.ordered) : r.Start = 1
           /\ \E r \in Range(env.disordered) \cup Range(env.ordered) : r.End = L

\* A mask with disordered runs at both ends and an ordered run between.
C14_Witness ==
    /\ RunsComputed
    /\ env.disorder = <<TRUE, FALSE, FALSE, TRUE>>
    /\ Len(env.disordered) = 2
    /\ env.disordered[2].Start = 4 /\ env.disordered[2].End = 4
    /\ Len(env.ordered) = 1
    /\ env.ordered[1].Start = 2 /\ env.ordered[1].End = 3

(***************************************************************************)
(* The region parser on its own: main.go:298-301 (MainRegion) applied to   *)
(* every short string over a small alphabet and to some longer strings.    *)
(***************************************************************************)
MaxRegionLen == 4

RegionAlphabet == {"0", "1", "2", "-", " ", "a"}

Chars(digits, dash, more) == digits \o <<dash>> \o more

Nines == <<"9", "9", "9", "9", "9", "9", "9", "9", "9">>

RegionStrings ==
    UNION { [1..n -> RegionAlphabet] : n \in 0..MaxRegionLen }
    \cup { <<"1", "0", "-", "2", "0", "0">>,
           <<" ", "\t", "3", " ", "-", " ", "8", "\n">>,
           <<"0", "0", "3", "-", "0", "1", "0">>,
           <<"VT", "3", "-", "8">>,
           <<"\f", "3", "-", "8", "\f">>,
           <<" ", "K", "i", "n", " ", "1", "VT">>,
           Chars(Itoa(IntMax), "-", Itoa(IntMax)),
           Chars(<<"1">>, "-", Nines \o <<"9">>),
           Chars(Nines \o <<"9">>, "-", <<"1">>),
           Chars(Nines \o <<"9">>, "-", Nines \o <<"8">>) }

InitRegion ==
    /\ pc = "region"
    /\ ctx = NoContext
    /\ regionRange = Nil
    /\ regionName = <<>>
    /\ minLength = 0
    /\ maxLength = 0
    /\ candidates = <<>>
    /\ scored = <<>>
    /\ top = <<>>
    /\ warnings = <<>>
    /\ stdout = <<>>
    /\ stderr = <<>>
    /\ http = HttpIdle
    /\ cache = CacheIdle
    /\ \E region \in RegionStrings : env = [region |-> region]

NextRegion == MainRegion

SpecRegion == InitRegion /\ [][NextRegion]_vars

RegionParsed == pc \in {"build", "fatal"}

\* Numbers as they are written: digit strings without leading zeros,
\* compared by length and then digit by digit.
RECURSIVE StripZeros(_)
StripZeros(digits) ==
    IF digits # <<>> /\ Head(digits) = "0" THEN StripZeros(Tail(digits)) ELSE digits

WrittenLess(a, b) ==
    LET x == StripZeros(a)
        y == StripZeros(b)
    IN \/ Len(x) < Len(y)
       \/ /\ Len(x) = Len(y)
          /\ \E i \in 1..Len(x) :
                /\ \A j \in 1..(i - 1) : x[j] = y[j]
                /\ DigitVal(x[i]) < DigitVal(y[i])

WrittenZero(a) == StripZeros(a) = <<>>

Strip(s, spaces) ==
    IF \A i \in DOMAIN s : s[i] \in spaces THEN <<>>
    ELSE LET first == CHOOSE i \in DOMAIN s :
                         s[i] \notin spaces /\ \A j \in 1..(i - 1) : s[j] \in spaces
             last == CHOOSE i \in DOMAIN s :
                         s[i] \notin spaces /\ \A j \in (i + 1)..Len(s) : s[j] \in spaces
         IN SubSeq(s, first, last)

\* The two numbers of a string of the form digits-digits with optional white
\* space around the numbers, or ok = FALSE for any other string.
RangeForm(region) ==
    LET fits(p) == /\ region[p] = "-"
                   /\ AllDigits(Strip(SubSeq(region, 1, p - 1), PatternSpaces))
                   /\ AllDigits(Strip(SubSeq(region, p + 1, Len(region)), PatternSpaces))
    IN IF \E p \in DOMAIN region : fits(p)
       THEN LET p == CHOOSE q \in DOMAIN region : fits(q)
            IN [ok |-> TRUE,
                start |-> Strip(SubSeq(region, 1, p - 1), PatternSpaces),
                end |-> Strip(SubSeq(region, p + 1, Len(region)), PatternSpaces)]
       ELSE [ok |-> FALSE, start |-> <<>>, end |-> <<>>]

ReturnsRange(start, end) ==
    /\ pc = "build"
    /\ stderr = <<>>
    /\ regionRange # Nil
    /\ Itoa(regionRange[1].Start) = StripZeros(start)
    /\ Itoa(regionRange[1].End) = StripZeros(end)
    /\ regionName = <<>>

ReturnsError ==
    /\ pc = "fatal"
    /\ stderr = <<"invalid --region">>
    /\ regionRange = Nil
    /\ regionName = <<>>

ReturnsFilter(name) ==
    /\ pc = "build"
    /\ stderr = <<>>
    /\ regionRange = Nil
    /\ regionName = name

\* What C15 says of the region string whose numbers satisfy fits.
RegionContract(fits(_)) ==
    LET form == RangeForm(env.region)
    IN /\ ~(regionRange # Nil /\ regionName # <<>>)
       /\ IF env.region = <<>> THEN ReturnsFilter(<<>>)
          ELSE IF ~form.ok THEN ReturnsFilter(Strip(env.region, UnicodeSpaces))
          ELSE (fits(form.start) /\ fits(form.end)) =>
                  IF \/ WrittenZero(form.start) \/ WrittenZero(form.end)
                     \/ WrittenLess(form.end, form.start)
                  THEN ReturnsError
                  ELSE ReturnsRange(form.start, form.end)

AnyNumber(digits) == TRUE

FitsInt(digits) == ~WrittenLess(Itoa(IntMax), digits)

\* C15: a string digits-digits (white space allowed around the numbers)
\* with 1 <= start <= end gives the range {start, end}, no name and no
\* error; with start = 0, end = 0 or start > end it gives the error that
\* ends the invocation; the empty string gives no range and no name; any
\* other string gives no range and the trimmed string as filter; a range and
\* a filter are never both returned.
C15_AsClaimed == RegionParsed => RegionContract(AnyNumber)

\* C15 for the strings whose numbers fit the int type: there the code does
\* as claimed.
C15_WithinIntRange == RegionParsed => RegionContract(FitsInt)

\* "10-200" parsed to the range {10, 200}.
C15_Witness ==
    /\ RegionParsed
    /\ env.region = <<"1", "0", "-", "2", "0", "0">>
    /\ regionRange = Ptr(Rng(10, 200, <<>>))
    /\ regionName = <<>>
    /\ pc = "build"

(***************************************************************************)
(* Properties of the candidate generator, over the runs of Spec.           *)
(***************************************************************************)
CandidatesBuilt == pc # "build"

CandidateRanges == {<<candidates[i].Start, candidates[i].End>> : i \in DOMAIN candidates}

\* The maximal runs of ordered positions of the context's mask.
OrderedRuns ==
    {r \in (1..ctx.Length) \X (1..ctx.Length) :
        MaximalRun(ctx.Disorder, [Start |-> r[1], End |-> r[2]], FALSE)}

\* The ranges proposed before the ordered runs: the region, the domains
\* (the filter applies only without a region, where there is none) and the
\* structure ranges.
ProposedEarlier ==
    (IF regionRange # Nil THEN {<<regionRange[1].Start, regionRange[1].End>>} ELSE {})
    \cup {<<ctx.DomainRanges[i].Start, ctx.DomainRanges[i].End>> :
            i \in DOMAIN ctx.DomainRanges}
    \cup {<<ctx.PDBRanges[i].Start, ctx.PDBRanges[i].End>> : i \in DOMAIN ctx.PDBRanges}

\* C16: with a numeric region or a free-text filter no candidate has the
\* source "ordered"; with neither, every maximal ordered run of the mask
\* that passes the length filter is a candidate, from the source "ordered"
\* unless the region, a domain or a structure range proposed the same range
\* before; and every "ordered" candidate is such a run.
C16_OrderedRunsOnlyUnfiltered ==
    CandidatesBuilt =>
        LET ord == {i \in DOMAIN candidates : candidates[i].Source = "ordered"}
        IN /\ (regionRange # Nil \/ regionName # <<>>) => ord = {}
           /\ (regionRange = Nil /\ regionName = <<>>) =>
                 \A r \in OrderedRuns :
                    Acceptable(r[1], r[2]) =>
                       /\ r \in CandidateRanges
                       /\ r \notin ProposedEarlier =>
                             \E i \in ord : <<candidates[i].Start, candidates[i].End>> = r
           /\ \A i \in ord :
                 /\ <<candidates[i].Start, candidates[i].End>> \in OrderedRuns
                 /\ Acceptable(candidates[i].Start, candidates[i].End)
                 /\ candidates[i].Name = <<"ordered_segment">>

\* Neither region nor filter: one ordered run became a candidate, another
\* was too short.
C16_Witness ==
    /\ pc = "score"
    /\ regionRange = Nil /\ regionName = <<>>
    /\ \E i \in DOMAIN candidates : candidates[i].Source = "ordered"
    /\ \E r \in OrderedRuns : ~Acceptable(r[1], r[2])

\* name contains filter as a substring, letter case ignored.
ContainsIgnoringCase(name, filter) ==
    \E off \in 0..(Len(name) - Len(filter)) :
        \A k \in 1..Len(filter) : ToLowerChar(name[off + k]) = ToLowerChar(filter[k])

FilterAdmits(name) == regionName = <<>> \/ ContainsIgnoringCase(name, regionName)

\* C17: for every domain range that passes the validity and length filters
\* and whose name contains the free-text filter (letter case ignored), or
\* when no filter was given (with or without a numeric region), its (start,
\* end) is among the candidates -- from the source "domain" unless the
\* region proposed the same range before; every domain-sourced candidate
\* comes from a domain the filter admits.  (The example of the claim, the
\* domain 100-200 of a 300-residue protein with minLength = 50, is the
\* domain 3-8 of the SeqLen-residue protein with minLength = 4 here.)
C17_DomainCandidates ==
    CandidatesBuilt =>
        LET dom == {i \in DOMAIN candidates : candidates[i].Source = "domain"}
        IN /\ \A k \in DOMAIN ctx.DomainRanges :
                 LET d == ctx.DomainRanges[k]
                 IN (Acceptable(d.Start, d.End) /\ FilterAdmits(d.Name)) =>
                       /\ <<d.Start, d.End>> \in CandidateRanges
                       /\ (regionRange = Nil
                           \/ <<regionRange[1].Start, regionRange[1].End>> # <<d.Start, d.End>>)
                             => \E i \in dom :
                                   <<candidates[i].Start, candidates[i].End>> = <<d.Start, d.End>>
           /\ \A i \in dom :
                 \E k \in DOMAIN ctx.DomainRanges :
                    LET d == ctx.DomainRanges[k]
                    IN /\ <<d.Start, d.End>> = <<candidates[i].Start, candidates[i].End>>
                       /\ d.Name = candidates[i].Name
                       /\ FilterAdmits(d.Name)
                       /\ Acceptable(d.Start, d.End)

\* The filter "kI" admitted the domain Kin 3-8 and not the domain SH.
C17_Witness ==
    /\ pc = "score"
    /\ regionName = <<"k", "I">>
    /\ \E i \in DOMAIN candidates :
          /\ candidates[i].Source = "domain"
          /\ candidates[i].Name = Kin
          /\ candidates[i].Start = 3 /\ candidates[i].End = 8
    /\ \E k \in DOMAIN ctx.DomainRanges :
          /\ ctx.DomainRanges[k].Name = SH
          /\ Acceptable(ctx.DomainRanges[k].Start, ctx.DomainRanges[k].End)

(***************************************************************************)
(* Properties of the scoring, over the runs of Spec.                       *)
(***************************************************************************)
Scored == pc \in {"rank", "present"}

Near(pos, p, buffer) == pos - p <= buffer /\ p - pos <= buffer

Inside(pos, r) == r.Start <= pos /\ pos <= r.End

\* The terms of the table of weights that trigger at a boundary, in the
\* order of the table: weight and rationale string.
TriggeredTerms(pos, side) ==
    (IF isDisorderTransition(pos, side, ctx.Disorder)
     THEN << <<30, "disorder transition">> >> ELSE <<>>)
    \o (IF \E d \in Range(ctx.DomainRanges) : Near(pos, d.Start, 3) \/ Near(pos, d.End, 3)
        THEN << <<25, "domain boundary">> >> ELSE <<>>)
    \o (IF isLoopRegion(pos, ctx.PLDDT)
        THEN << <<20, "loop-like region">> >> ELSE <<>>)
    \o (IF hasStructuredSide(pos, side, ctx.PLDDT)
        THEN << <<15, "high pLDDT side">> >> ELSE <<>>)
    \o (IF \E r \in Range(ctx.PDBRanges) : Near(pos, r.Start, 3) \/ Near(pos, r.End, 3)
        THEN << <<10, "PDB boundary">> >> ELSE <<>>)
    \o (IF \E r \in Range(ctx.HelixRanges) \cup Range(ctx.StrandRanges) : Inside(pos, r)
        THEN << <<-50, "cuts secondary structure">> >> ELSE <<>>)
    \o (IF \E r \in Range(ctx.ActiveSites) : Inside(pos, r)
        THEN << <<-100, "near active site">> >> ELSE <<>>)
    \o (IF \E p \in Range(ctx.PTMPositions) : Near(pos, p, 5)
        THEN << <<-20, "near PTM site">> >> ELSE <<>>)

RECURSIVE WeightSum(_)
WeightSum(terms) ==
    IF terms = <<>> THEN 0 ELSE Head(terms)[1] + WeightSum(Tail(terms))

Clamped(x) == IF x < 0 THEN 0 ELSE IF x > 100 THEN 100 ELSE x

\* C18: the score of every candidate is the average of its start-boundary
\* and end-boundary scores (their sum, in half points), each the sum of the
\* weights of the triggered terms (+30, +25, +20, +15, +10, -50, -100, -20)
\* clamped to [0,100] before the averaging; the rationale is the strings of
\* the triggered terms, those of the start boundary and then those of the
\* end boundary.
C18_ScoreIsAverageOfClampedSums ==
    Scored =>
        \A i \in DOMAIN scored :
            LET st == TriggeredTerms(scored[i].Start, "start")
                en == TriggeredTerms(scored[i].End, "end")
            IN /\ scored[i].Score = Clamped(WeightSum(st)) + Clamped(WeightSum(en))
               /\ scored[i].Rationale = [k \in 1..Len(st) |-> st[k][2]]
                                        \o [k \in 1..Len(en) |-> en[k][2]]

\* A candidate with a negative raw sum at the start boundary and a positive
\* one at the end boundary: clamping the average would give another score.
C18_Witness ==
    /\ Scored
    /\ \E i \in DOMAIN scored :
          /\ WeightSum(TriggeredTerms(scored[i].Start, "start")) < 0
          /\ WeightSum(TriggeredTerms(scored[i].End, "end")) > 0
          /\ scored[i].Score > 0

(***************************************************************************)
(* Properties of two concurrent calls of fetchWithCache (SpecRace).        *)
(***************************************************************************)
RaceOver == \A p \in RaceProcs : cache.procs[p].pc = "done"

\* The record a process hands to os.WriteFile.
RecordOf(p) ==
    FileRecord(cache.procs[p].stamp,
               marshalPayload(cache.procs[p].fetchedPayload).stored,
               cache.procs[p].fetchedPayload)

\* The processes whose os.WriteFile wrote its whole record.
Writers == {p \in RaceProcs : cache.procs[p].wrote > 0}

LastWriter == CHOOSE p \in Writers : \A q \in Writers : cache.procs[q].wrote <= cache.procs[p].wrote

\* No step of any writeCache failed.
NoWriteFailure == \A p \in RaceProcs : cache.procs[p].werr = ""

\* What a finished call returned is the payload its own fetch produced, or
\* the payload that the fetch behind the record it read had produced, or
\* its own fetch error with no payload.
ReturnsWholePayload(p) ==
    LET me == cache.procs[p]
    IN \/ me.err = "" /\ me.fetched /\ me.payload = me.fetchedPayload
       \/ me.err = "" /\ me.hit /\ ~me.fetched /\ me.sawFile.state = "record"
          /\ me.payload = me.sawFile.orig
       \/ me.err = "fetch failed" /\ me.fetched /\ me.payload = NoPayload

\* C19 as claimed: of two concurrent calls for the same cache file, each
\* returns a complete payload produced by a fetch (its own or the one
\* behind a fully persisted record) or its own fetch error; and after both
\* have finished, with no write having failed, the file holds the record of
\* the process that wrote last.
C19_AsClaimed ==
    /\ \A p \in RaceProcs : cache.procs[p].pc = "done" => ReturnsWholePayload(p)
    /\ (RaceOver /\ NoWriteFailure /\ Writers # {}) => cache.file = RecordOf(LastWriter)

\* Both calls missed, fetched and wrote without an error, and the file they
\* leave is not a record: the later record was the shorter one.
C19_Witness ==
    /\ RaceOver
    /\ NoWriteFailure
    /\ Writers = RaceProcs
    /\ \A p \in RaceProcs : cache.procs[p].err = ""
    /\ cache.file = FileCorrupt

\* What holds of the two calls: a call never returns bytes of a file that
\* is not a whole record, and what it returns carries the value of one
\* fetch, its own or the one behind the record it read.
C19_NoTruncatedPayload ==
    \A p \in RaceProcs :
        LET me == cache.procs[p]
        IN me.pc = "done" =>
              \/ me.err = "" /\ me.fetched /\ me.payload = me.fetchedPayload
              \/ me.err = "" /\ me.hit /\ ~me.fetched /\ me.sawFile.state = "record"
                 /\ me.payload = me.sawFile.payload
                 /\ me.payload.val = me.sawFile.orig.val
              \/ me.err = "fetch failed" /\ me.payload = NoPayload

(***************************************************************************)
(* boundaryScore (main.go:856-895) on contexts that carry a confidence     *)
(* array and no other evidence, at every position of the array and one     *)
(* beyond it, on either side.                                              *)
(***************************************************************************)
\* The longest confidence array.
MaxSide == 11

\* Eight values of 80 among ten average 64, nine average 72; seven among
\* eight average 70.
SideValues == {0, 80}

SideArrays == UNION { [1..n -> SideValues] : n \in 0..MaxSide }

sideContext(plddt) == [NoContext EXCEPT !.PLDDT = plddt]

\* main.go:842-843: one boundaryScore call of scoreCandidates.
SideScore ==
    /\ pc = "side"
    /\ env' = [env EXCEPT !.result = boundaryScore(env.pos, env.side, sideContext(env.plddt))]
    /\ pc' = "sided"
    /\ UNCHANGED <<ctx, regionRange, regionName, minLength, maxLength, candidates,
                   scored, top, warnings, stdout, stderr, http, cache>>

InitSide ==
    /\ pc = "side"
    /\ ctx = NoContext
    /\ regionRange = Nil
    /\ regionName = <<>>
    /\ minLength = 0
    /\ maxLength = 0
    /\ candidates = <<>>
    /\ scored = <<>>
    /\ top = <<>>
    /\ warnings = <<>>
    /\ stdout = <<>>
    /\ stderr = <<>>
    /\ http = HttpIdle
    /\ cache = CacheIdle
    /\ \E plddt \in SideArrays, pos \in 1..(MaxSide + 1), side \in {"start", "end"} :
          env = [plddt |-> plddt, pos |-> pos, side |-> side,
                 result |-> [score |-> 0, rationale |-> <<>>]]

NextSide == SideScore

SpecSide == InitSide /\ [][NextSide]_vars

SideScored == pc = "sided"

\* The +15 term was triggered: its rationale is there and the score is 15,
\* or 35 together with the only other term a bare confidence array can
\* trigger, the loop-like region.
StructuredTermTriggered ==
    /\ "high pLDDT side" \in Range(env.result.rationale)
    /\ env.result.score =
          15 + (IF "loop-like region" \in Range(env.result.rationale) THEN 20 ELSE 0)

StructuredTermAbsent ==
    /\ "high pLDDT side" \notin Range(env.result.rationale)
    /\ env.result.score =
          (IF "loop-like region" \in Range(env.result.rationale) THEN 20 ELSE 0)

\* The residues (numbered from 1) of the confidence array that lie among
\* the n residues from the boundary residue inward.
InteriorWindow(n) ==
    {i \in 1..Len(env.plddt) :
        IF env.side = "start" THEN env.pos <= i /\ i <= env.pos + n - 1
        ELSE env.pos - n + 1 <= i /\ i <= env.pos}

RECURSIVE SumOver(_, _)
SumOver(values, S) ==
    IF S = {} THEN 0
    ELSE LET i == CHOOSE j \in S : TRUE
         IN values[i] + SumOver(values, S \ {i})

\* The window has residues and their average confidence is above 70.
AverageAbove70(W) == W # {} /\ SumOver(env.plddt, W) > 70 * Cardinality(W)

\* C20 as claimed: the +15 term triggers exactly when the average confidence
\* over the interior window is > 70, the window being 8 residues for a
\* start boundary and 10 residues for an end boundary.
C20_AsClaimed ==
    SideScored =>
        IF AverageAbove70(InteriorWindow(IF env.side = "start" THEN 8 ELSE 10))
        THEN StructuredTermTriggered
        ELSE StructuredTermAbsent

\* C20: the +15 term triggers exactly when the average confidence over the
\* interior window is > 70, the window being the 10 residues from the
\* boundary residue inward on either side (pos .. pos+9 for a start
\* boundary, pos-9 .. pos for an end boundary), clipped to the confidence
\* array; it never triggers when no residue of the array is in the window,
\* and so never when the array is empty.
C20_StructuredSideWindow ==
    SideScored =>
        /\ IF AverageAbove70(InteriorWindow(10))
           THEN StructuredTermTriggered
           ELSE StructuredTermAbsent
        /\ env.plddt = <<>> => StructuredTermAbsent

\* A start boundary whose 8 residues inward average above 70 and whose 10
\* residues inward do not: the term is not triggered.
C20_Witness ==
    /\ SideScored
    /\ env.side = "start"
    /\ Cardinality(InteriorWindow(10)) = 10
    /\ AverageAbove70(InteriorWindow(8))
    /\ ~AverageAbove70(InteriorWindow(10))
    /\ StructuredTermAbsent

(***************************************************************************)
(* The loop-like term of boundaryScore (SpecSide).                         *)
(***************************************************************************)
LoopTermTriggered == "loop-like region" \in Range(env.result.rationale)

\* The residues (numbered from 1) of the confidence array from lo to hi.
Residues1(lo, hi) == {i \in 1..Len(env.plddt) : lo <= i /\ i <= hi}

AverageBelow70(W) == W # {} /\ SumOver(env.plddt, W) < 70 * Cardinality(W)

\* C21 as claimed: the +20 term triggers exactly when the 5 residues
\* pos-2..pos+2 average below 70 and the 6 residues outside them on each
\* side (pos-8..pos-3 and pos+3..pos+8) average above 70, the windows
\* clipped to the confidence array; never with an empty array.
C21_AsClaimed ==
    SideScored =>
        (LoopTermTriggered <=>
            /\ AverageBelow70(Residues1(env.pos - 2, env.pos + 2))
            /\ AverageAbove70(Residues1(env.pos - 8, env.pos - 3))
            /\ AverageAbove70(Residues1(env.pos + 3, env.pos + 8)))

\* What isLoopRegion computes: the windows are taken at the indices
\* pos-2..pos+2, pos-8..pos-3 and pos+3..pos+8 of the 0-indexed array, that
\* is one residue further along the sequence than the claim's, and no
\* boundary at the first two or last three residues triggers.
C21_ShiftedWindows ==
    SideScored =>
        (LoopTermTriggered <=>
            /\ 2 < env.pos /\ env.pos < Len(env.plddt) - 2
            /\ AverageBelow70(Residues1(env.pos - 1, env.pos + 3))
            /\ AverageAbove70(Residues1(env.pos - 7, env.pos - 2))
            /\ AverageAbove70(Residues1(env.pos + 4, env.pos + 9)))

\* The only low residue is the one two before the boundary: the claim's
\* windows make a loop of it, the code's windows do not.
C21_Witness ==
    /\ SideScored
    /\ AverageBelow70(Residues1(env.pos - 2, env.pos + 2))
    /\ AverageAbove70(Residues1(env.pos - 8, env.pos - 3))
    /\ AverageAbove70(Residues1(env.pos + 3, env.pos + 8))
    /\ env.plddt[env.pos - 2] = 0
    /\ ~LoopTermTriggered

(***************************************************************************)
(* From the annotations to a boundary score: extractFeatures and           *)
(* extractPDBRanges fill the boundaryContext (main.go:282-296) of a        *)
(* sequence of SeqLen residues without confidence data, and boundaryScore  *)
(* is applied at one position.                                             *)
(***************************************************************************)
EvidenceFeatures ==
    { Feature("Domain", Kin, Loc(Ptr(3), Ptr(8), Nil)),
      Feature("Domain", SH, Loc(Ptr(8), Ptr(3), Nil)),
      Feature("mod_res", <<>>, Loc(Nil, Nil, Ptr(1))),
      Feature("mod_res", <<>>, Loc(Nil, Nil, Ptr(7))),
      Feature("Disulfid", <<>>, Loc(Ptr(2), Ptr(12), Nil)),
      Feature("lipid", <<>>, Loc(Ptr(9), Nil, Nil)),
      Feature("act_site", <<>>, Loc(Nil, Nil, Ptr(8))),
      Feature("act_site", <<>>, Loc(Ptr(3), Ptr(5), Nil)),
      Feature("Helix", <<>>, Loc(Ptr(3), Ptr(5), Nil)) }

EvidenceFeatureLists ==
    {<<>>} \cup { <<f>> : f \in EvidenceFeatures }
           \cup { <<f, g>> : f \in EvidenceFeatures, g \in EvidenceFeatures }

EvidenceRefs ==
    { <<>>,
      <<CrossRef("pdb", <<"2", "B">>,
                 <<Span(<<"3">>, <<"8">>), BadSpan, Span(<<"0">>, <<"7">>)>>)>>,
      <<CrossRef("EMBL", <<"X">>, <<Span(<<"1">>, <<"2">>)>>),
        CrossRef("pdb", <<"1", "A">>, <<Span(<<"8">>, <<"3">>)>>)>> }

\* main.go:282-296
EvidenceExtract ==
    /\ pc = "extract"
    /\ LET f == extractFeatures(env.features)
       IN ctx' = makeContext(SeqLen, <<>>, f.domains, extractPDBRanges(env.refs),
                             [Helix |-> f.helixes, Strand |-> f.strands,
                              Active |-> f.activeSites, PTM |-> f.ptmPositions])
    /\ pc' = "boundary"
    /\ UNCHANGED <<regionRange, regionName, minLength, maxLength, candidates,
                   scored, top, warnings, stdout, stderr, http, cache, env>>

\* main.go:842-843: one boundaryScore call of scoreCandidates.
EvidenceScore ==
    /\ pc = "boundary"
    /\ env' = [env EXCEPT !.result = boundaryScore(env.pos, env.side, ctx)]
    /\ pc' = "scored"
    /\ UNCHANGED <<ctx, regionRange, regionName, minLength, maxLength, candidates,
                   scored, top, warnings, stdout, stderr, http, cache>>

InitEvidence ==
    /\ pc = "extract"
    /\ ctx = NoContext
    /\ regionRange = Nil
    /\ regionName = <<>>
    /\ minLength = 0
    /\ maxLength = 0
    /\ candidates = <<>>
    /\ scored = <<>>
    /\ top = <<>>
    /\ warnings = <<>>
    /\ stdout = <<>>
    /\ stderr = <<>>
    /\ http = HttpIdle
    /\ cache = CacheIdle
    /\ \E features \in EvidenceFeatureLists, refs \in EvidenceRefs,
          pos \in 1..SeqLen, side \in {"start", "end"} :
          env = [features |-> features, refs |-> refs, pos |-> pos, side |-> side,
                 result |-> [score |-> 0, rationale |-> <<>>]]

NextEvidence == EvidenceExtract \/ EvidenceScore

SpecEvidence == InitEvidence /\ [][NextEvidence]_vars

BoundaryScored == pc = "scored"

ModificationTypes == {"MOD_RES", "CARBOHYD", "LIPID", "DISULFID", "CROSSLINK", "METAL"}

\* The annotation is a modification feature that carries a location: a
\* single position, or a start and an end.
IsModification(f) ==
    /\ ToUpperWord(f.Type) \in ModificationTypes
    /\ f.Location.Position # Nil \/ (f.Location.Start # Nil /\ f.Location.End # Nil)

\* Its start coordinate.
StartCoordinate(f) ==
    IF f.Location.Position # Nil THEN f.Location.Position[1] ELSE f.Location.Start[1]

NearModification ==
    \E f \in Range(env.features) :
        IsModification(f) /\ Near(env.pos, StartCoordinate(f), 5)

\* The sum of the terms other than the PTM term that trigger at the boundary.
OtherTermsSum ==
    WeightSum(SelectSeq(TriggeredTerms(env.pos, env.side),
                        LAMBDA t : t[2] # "near PTM site"))

\* C22: the boundary incurs the -20 term and the rationale "near PTM site"
\* exactly when the start coordinate of some modification feature lies
\* within 5 residues of it; the other coordinates of a feature that spans a
\* range do not count.
C22_PTMTerm ==
    BoundaryScored =>
        /\ "near PTM site" \in Range(env.result.rationale) <=> NearModification
        /\ env.result.score =
              Clamped(OtherTermsSum + (IF NearModification THEN -20 ELSE 0))

\* A boundary exactly 5 residues after the start of a disulfide range and
\* next to a domain boundary: 25 - 20 points.
C22_Witness ==
    /\ BoundaryScored
    /\ env.pos = 7
    /\ env.features = <<Feature("Domain", Kin, Loc(Ptr(3), Ptr(8), Nil)),
                        Feature("Disulfid", <<>>, Loc(Ptr(2), Ptr(12), Nil))>>
    /\ NearModification
    /\ env.result.score = 5

(***************************************************************************)
(* One candidate scored twice over the same evidence (main.go:278-296,     *)
(* 838-851): with a confidence array of the sequence length in which every *)
(* residue has confidence 90, and with no confidence data.                 *)
(***************************************************************************)
AllConfident == [i \in 1..SeqLen |-> 90]

\* The first and last residue of a candidate: within the sequence or up to
\* two residues beyond it.
CandidateEnds == 1..(SeqLen + 2)

\* main.go:284-296, 838-851 with plddt of full length and confidence 90.
ScoreConfident ==
    /\ pc = "confident"
    /\ ctx' = makeContext(SeqLen, AllConfident, env.domains, env.pdb, env.f)
    /\ env' = [env EXCEPT !.confident = scoreOne(env.cand, ctx'),
                          !.maskConfident = ctx'.Disorder]
    /\ pc' = "unknown"
    /\ UNCHANGED <<regionRange, regionName, minLength, maxLength, candidates,
                   scored, top, warnings, stdout, stderr, http, cache>>

\* main.go:284-296, 838-851 with an empty plddt.
ScoreUnknown ==
    /\ pc = "unknown"
    /\ ctx' = makeContext(SeqLen, <<>>, env.domains, env.pdb, env.f)
    /\ env' = [env EXCEPT !.unknown = scoreOne(env.cand, ctx'),
                          !.maskUnknown = ctx'.Disorder]
    /\ pc' = "compared"
    /\ UNCHANGED <<regionRange, regionName, minLength, maxLength, candidates,
                   scored, top, warnings, stdout, stderr, http, cache>>

InitOrdered ==
    /\ pc = "confident"
    /\ ctx = NoContext
    /\ regionRange = Nil
    /\ regionName = <<>>
    /\ minLength = 0
    /\ maxLength = 0
    /\ candidates = <<>>
    /\ scored = <<>>
    /\ top = <<>>
    /\ warnings = <<>>
    /\ stdout = <<>>
    /\ stderr = <<>>
    /\ http = HttpIdle
    /\ cache = CacheIdle
    /\ \E start \in CandidateEnds, end \in CandidateEnds, domains \in DomainInputs,
          pdb \in PDBInputs, f \in FeatureInputs :
          /\ start <= end
          /\ env = [cand |-> newCandidate(start, end, "Region", <<>>, <<>>),
                    domains |-> domains, pdb |-> pdb, f |-> f,
                    confident |-> newCandidate(start, end, "Region", <<>>, <<>>),
                    unknown |-> newCandidate(start, end, "Region", <<>>, <<>>),
                    maskConfident |-> <<>>, maskUnknown |-> <<>>]

NextOrdered == ScoreConfident \/ ScoreUnknown

SpecOrdered == InitOrdered /\ [][NextOrdered]_vars

Compared == pc = "compared"

\* C23 as claimed: the score and the rationale computed with no confidence
\* data are those computed with a confidence array of the sequence length
\* in which every residue has confidence 90.
C23_AsClaimed ==
    Compared =>
        /\ env.unknown.Score = env.confident.Score
        /\ env.unknown.Rationale = env.confident.Rationale

\* The interior window of the structured-side term (10 residues from the
\* boundary residue inward) holds a residue of the sequence.
ReachesSequence(pos, side) ==
    \E i \in 1..SeqLen :
        IF side = "start" THEN pos <= i /\ i <= pos + 9
        ELSE pos - 9 <= i /\ i <= pos

Bonus(pos, side) == IF ReachesSequence(pos, side) THEN 15 ELSE 0

RECURSIVE Occurrences(_, _)
Occurrences(seq, x) ==
    IF seq = <<>> THEN 0
    ELSE (IF Head(seq) = x THEN 1 ELSE 0) + Occurrences(Tail(seq), x)

\* C23: without confidence data the disorder mask is the all-false mask of
\* the fully confident array (the whole protein counts as ordered) and every
\* term triggers as it does with that array except the +15 structured-side
\* term, which triggers with the confident array at every boundary whose
\* interior window reaches the sequence and never without confidence data:
\* the rationales are the same but for "high pLDDT side", and each boundary
\* score is the clamped sum of the same terms with and without the 15.
C23_OrderedButNotStructured ==
    Compared =>
        LET c == env.cand
            s == WeightSum(TriggeredTerms(c.Start, "start"))
            e == WeightSum(TriggeredTerms(c.End, "end"))
        IN /\ env.maskUnknown = env.maskConfident
           /\ env.maskUnknown = [i \in 1..SeqLen |-> FALSE]
           /\ env.unknown.Score = Clamped(s) + Clamped(e)
           /\ env.confident.Score = Clamped(s + Bonus(c.Start, "start"))
                                    + Clamped(e + Bonus(c.End, "end"))
           /\ env.unknown.Rationale =
                 SelectSeq(env.confident.Rationale, LAMBDA t : t # "high pLDDT side")
           /\ Occurrences(env.unknown.Rationale, "high pLDDT side") = 0
           /\ Occurrences(env.confident.Rationale, "high pLDDT side") =
                 (IF ReachesSequence(c.Start, "start") THEN 1 ELSE 0)
                 + (IF ReachesSequence(c.End, "end") THEN 1 ELSE 0)

\* A candidate within the sequence that scores 15 and 15 with the confident
\* array and nothing without confidence data.
C23_Witness ==
    /\ Compared
    /\ env.cand.End <= SeqLen
    /\ env.unknown.Score = 0
    /\ env.confident.Score = 30
    /\ env.confident.Rationale = <<"high pLDDT side", "high pLDDT side">>
    /\ env.unknown.Rationale = <<>>

(***************************************************************************)
(* The coordinates of the extracted ranges (SpecEvidence).                 *)
(***************************************************************************)
Extracted == pc \in {"boundary", "scored"}

\* Every range the context holds after extraction, and the runs of its
\* disorder mask.
ExtractedRanges ==
    Range(ctx.DomainRanges) \cup Range(ctx.HelixRanges) \cup Range(ctx.StrandRanges)
    \cup Range(ctx.ActiveSites) \cup Range(ctx.PDBRanges)
    \cup Range(compressDisorder(ctx.Disorder)) \cup Range(orderedRanges(ctx.Disorder))

\* C24 as claimed: every range produced by extractFeatures,
\* extractPDBRanges and the run compressors has 1 <= start <= end,
\* whatever the annotation records and cross-references are.
C24_AsClaimed ==
    Extracted => \A r \in ExtractedRanges : 1 <= r.Start /\ r.Start <= r.End

\* What the extractors do: the coordinates of an annotation or of a chain
\* span are passed on as written (a feature is dropped only when a
\* coordinate is 0 or missing), the runs of the mask are well formed.
C24_CoordinatesAsWritten ==
    Extracted =>
        /\ \A r \in Range(ctx.DomainRanges) \cup Range(ctx.HelixRanges)
                    \cup Range(ctx.StrandRanges) \cup Range(ctx.ActiveSites) :
              \E f \in Range(env.features) :
                 /\ r.Start # 0 /\ r.End # 0
                 /\ \/ f.Location.Position = Ptr(r.Start) /\ r.End = r.Start
                    \/ f.Location.Position = Nil /\ f.Location.Start = Ptr(r.Start)
                       /\ f.Location.End = Ptr(r.End)
        /\ \A r \in Range(compressDisorder(ctx.Disorder))
                    \cup Range(orderedRanges(ctx.Disorder)) :
              1 <= r.Start /\ r.Start <= r.End

\* A domain annotated 8..3 and a chain span 0-7 are in the context as
\* written.
C24_Witness ==
    /\ Extracted
    /\ \E r \in Range(ctx.DomainRanges) : r.Start = 8 /\ r.End = 3
    /\ \E r \in Range(ctx.PDBRanges) : r.Start = 0 /\ r.End = 7

(***************************************************************************)
(* The warnings of an invocation (SpecMain).                               *)
(***************************************************************************)
\* The warnings written with the output: those of the structured record or
\* of the summary.
EmittedWarnings ==
    UNION { Range(stdout[i].warnings) :
              i \in {j \in DOMAIN stdout : stdout[j].kind \in {"json", "summary"}} }

OutputEmitted == \E i \in DOMAIN stdout : stdout[i].kind \in {"json", "summary"}

\* The warnings recorded by the stages that have run: the initial notice,
\* those the identifier resolution returned, those of the confidence lookup
\* and the length mismatch.
RecordedWarnings ==
    {Notice}
    \cup (IF env.resolveCalled THEN Range(env.resolved.warnings) ELSE {})
    \cup (IF env.confCalled THEN DegradationWarnings ELSE {})
    \cup Range(lengthWarning(<<>>, env.plddt, env.sequence))

\* C25 as claimed: every warning recorded at any stage is among the
\* warnings emitted with the final output, in identifier-based and in
\* raw-sequence invocations.
C25_AsClaimed == OutputEmitted => RecordedWarnings \subseteq EmittedWarnings

\* From the identifier resolution on nothing is lost: the warnings it
\* returned, those of the confidence lookup and the length mismatch are
\* emitted, and a raw-sequence invocation emits the initial notice too.
C25_KeptAfterResolution ==
    OutputEmitted =>
        /\ RecordedWarnings \ {Notice} \subseteq EmittedWarnings
        /\ ~env.resolveCalled => Notice \in EmittedWarnings
        /\ env.resolveCalled => Notice \notin EmittedWarnings

\* An identifier-based invocation resolved through the search has written
\* its output with the resolution warning and without the initial notice.
C25_Witness ==
    /\ pc = "done"
    /\ OutputEmitted
    /\ env.resolveCalled
    /\ \E w \in EmittedWarnings : w.text = "resolved %q to UniProt accession %s"
    /\ Notice \notin EmittedWarnings

(***************************************************************************)
(* A failed fetch after a cache miss (SpecCache).                          *)
(***************************************************************************)
\* The call of p missed the cache and its fetch failed.
FetchFailed(p) ==
    /\ cache.procs[p].pc = "done"
    /\ cache.procs[p].fetched
    /\ cache.procs[p].fetchedPayload = NoPayload

\* C26: when the call misses and the fetch fails, the error is returned
\* with no payload and the cache file is what it was when the call read it:
\* no record created, an expired or unreadable one neither removed nor
\* rewritten; in particular an expired record is not returned.
C26_FailedFetchLeavesCache ==
    \A p \in CacheProcs :
        FetchFailed(p) =>
            /\ ~cache.procs[p].hit
            /\ cache.procs[p].err = "fetch failed"
            /\ cache.procs[p].payload = NoPayload
            /\ cache.procs[p].werr = ""
            /\ cache.file = cache.procs[p].sawFile

\* An expired record was read, the refetch failed, and the record is still
\* there.
C26_Witness ==
    \E p \in CacheProcs :
        /\ FetchFailed(p)
        /\ ReadRecord(p)
        /\ Age(p) > 30
        /\ cache.file.state = "record"
        /\ cache.procs[p].err = "fetch failed"

(***************************************************************************)
(* A second call after a successful fetch (SpecCache).                     *)
(***************************************************************************)
\* The errors of writeCache that come from the file system.
IOFailures == {"mkdir failed", "open failed", "write failed"}

\* The call of p has read the cache, and the previous call of p fetched a
\* payload, at most 30 days before, into a cache it could write to.
SecondCallWithin30Days(p) ==
    LET me == cache.procs[p]
    IN /\ me.pc \in {"fetch", "write", "writing", "done"}
       /\ me.prev.made
       /\ me.prev.fetched
       /\ me.prev.payload # NoPayload
       /\ me.prev.werr \notin IOFailures
       /\ me.readAt - me.prev.fetchAt <= 30

\* C27 as claimed: such a second call is served from the cache without
\* invoking fetch, whatever the payload is, the structure file that is not
\* JSON included.
C27_AsClaimed ==
    \A p \in CacheProcs :
        SecondCallWithin30Days(p) =>
            /\ cache.procs[p].hit
            /\ cache.procs[p].pc = "done"
            /\ ~cache.procs[p].fetched

\* What holds: the second call is served from the cache exactly when the
\* payload of the first is JSON; bytes that are not JSON were never stored
\* and are fetched again.
C27_ServedWhenJSON ==
    \A p \in CacheProcs :
        SecondCallWithin30Days(p) =>
            IF cache.procs[p].prev.payload.json
            THEN /\ cache.procs[p].hit
                 /\ cache.procs[p].pc = "done"
                 /\ ~cache.procs[p].fetched
                 /\ cache.procs[p].payload.val = cache.procs[p].prev.payload.val
            ELSE /\ ~cache.procs[p].hit
                 /\ cache.procs[p].prev.werr = "json: invalid RawMessage"
                 /\ cache.procs[p].pc = "done" => cache.procs[p].fetched

\* The structure file was fetched, and the next call, the same day, fetched
\* it again.
C27_Witness ==
    \E p \in CacheProcs :
        /\ SecondCallWithin30Days(p)
        /\ cache.procs[p].prev.payload = Payload(FALSE, "P", "raw")
        /\ cache.procs[p].readAt = cache.procs[p].prev.fetchAt
        /\ cache.procs[p].pc = "done"
        /\ cache.procs[p].fetched
        /\ ~cache.procs[p].hit

(***************************************************************************)
(* The candidates and the sequence (Spec).                                 *)
(***************************************************************************)
\* C28 as claimed: every candidate of the final ranked list lies within the
\* sequence, 1 <= start <= end <= sequence length.
C28_AsClaimed ==
    Ranked =>
        \A i \in DOMAIN top :
            1 <= top[i].Start /\ top[i].Start <= top[i].End /\ top[i].End <= ctx.Length

\* What addCandidate enforces: 1 <= start <= end, with no upper limit.
C28_PositiveAndOrdered ==
    Ranked => \A i \in DOMAIN top : 1 <= top[i].Start /\ top[i].Start <= top[i].End

\* A user region that ends beyond the sequence is in the ranked list.
C28_Witness ==
    /\ Ranked
    /\ \E i \in DOMAIN top :
          /\ top[i].Source = "user"
          /\ top[i].Start <= ctx.Length
          /\ top[i].End > ctx.Length

(***************************************************************************)
(* Boundaries inside an active site (Spec).                                *)
(***************************************************************************)
InActiveSite(pos) == \E r \in Range(ctx.ActiveSites) : Inside(pos, r)

\* The sum of the positive terms that trigger at a boundary.
PositiveSum(pos, side) ==
    WeightSum(SelectSeq(TriggeredTerms(pos, side), LAMBDA t : t[1] > 0))

\* C29: a boundary inside an active-site range scores exactly 0 whatever
\* positive terms trigger with it, so that a candidate with one boundary in
\* an active site has the score of its other boundary alone, at most 50
\* (100 half points), and one with both boundaries in active sites has 0.
C29_ActiveSiteZero ==
    Scored =>
        \A i \in DOMAIN scored :
            LET c == scored[i]
                other(pos, side) == Clamped(WeightSum(TriggeredTerms(pos, side)))
            IN /\ (InActiveSite(c.Start) /\ InActiveSite(c.End)) => c.Score = 0
               /\ (InActiveSite(c.Start) /\ ~InActiveSite(c.End)) =>
                     c.Score = other(c.End, "end") /\ c.Score <= 100
               /\ (InActiveSite(c.End) /\ ~InActiveSite(c.Start)) =>
                     c.Score = other(c.Start, "start") /\ c.Score <= 100
               /\ (InActiveSite(c.Start) \/ InActiveSite(c.End)) =>
                     "near active site" \in Range(c.Rationale)

\* A candidate whose end boundary lies in an active site with positive terms
\* worth more than 50 triggering there: it has the score of its start
\* boundary alone.
C29_Witness ==
    /\ Scored
    /\ \E i \in DOMAIN scored :
          /\ InActiveSite(scored[i].End)
          /\ PositiveSum(scored[i].End, "end") > 50
          /\ ~InActiveSite(scored[i].Start)
          /\ scored[i].Score = Clamped(WeightSum(TriggeredTerms(scored[i].Start, "start")))
          /\ scored[i].Score > 0

(***************************************************************************)
(* Which proposal of a range survives (Spec).                              *)
(***************************************************************************)
Proposal(start, end, source, name, pdbID) ==
    [Start |-> start, End |-> end, Source |-> source, Name |-> name, PDBID |-> pdbID]

\* The proposals in the order they are made: the user region, the domains
\* the filter admits in annotation order, the structure ranges, and the
\* ordered runs when there is neither region nor filter.
Proposals ==
    LET admitted == SelectSeq(ctx.DomainRanges, LAMBDA d : FilterAdmits(d.Name))
        runs == orderedRanges(ctx.Disorder)
    IN (IF regionRange # Nil
        THEN <<Proposal(regionRange[1].Start, regionRange[1].End, "user",
                        <<"user_region">>, <<>>)>>
        ELSE <<>>)
       \o [k \in DOMAIN admitted |->
             Proposal(admitted[k].Start, admitted[k].End, "domain",
                      admitted[k].Name, <<>>)]
       \o [k \in DOMAIN ctx.PDBRanges |->
             Proposal(ctx.PDBRanges[k].Start, ctx.PDBRanges[k].End, "pdb",
                      ctx.PDBRanges[k].ID, ctx.PDBRanges[k].ID)]
       \o (IF regionRange = Nil /\ regionName = <<>>
           THEN [k \in DOMAIN runs |->
                   Proposal(runs[k].Start, runs[k].End, "ordered",
                            <<"ordered_segment">>, <<>>)]
           ELSE <<>>)

\* The first of the proposals P that is of the range (start, end).
FirstProposal(P, start, end) ==
    CHOOSE k \in DOMAIN P :
        /\ P[k].Start = start /\ P[k].End = end
        /\ \A j \in 1..(k - 1) : P[j].Start # start \/ P[j].End # end

IsProposed(P, start, end) ==
    \E k \in DOMAIN P : P[k].Start = start /\ P[k].End = end

\* C30: a candidate carries the source, name and structure id of the first
\* proposal of its range in the order user region, domains, structure
\* ranges, ordered runs, and the candidates stand in the order of those
\* first proposals; a range that the length filter rejects is rejected for
\* every proposal of it.
C30_FirstProposalSurvives ==
    CandidatesBuilt =>
        LET P == Proposals
            first == [i \in DOMAIN candidates |->
                        IF IsProposed(P, candidates[i].Start, candidates[i].End)
                        THEN FirstProposal(P, candidates[i].Start, candidates[i].End)
                        ELSE 0]
        IN /\ \A i \in DOMAIN candidates :
                 LET c == candidates[i]
                 IN /\ first[i] > 0
                    /\ Proposal(c.Start, c.End, c.Source, c.Name, c.PDBID) = P[first[i]]
           /\ \A i, j \in DOMAIN candidates : i < j => first[i] < first[j]
           /\ \A k \in DOMAIN P :
                 ~Acceptable(P[k].Start, P[k].End) =>
                     \A i \in DOMAIN candidates :
                         candidates[i].Start # P[k].Start \/ candidates[i].End # P[k].End

\* Without a region, a domain and a structure range both propose 3-8: the
\* candidate is the domain's and has no structure id.
C30_Witness ==
    /\ CandidatesBuilt
    /\ regionRange = Nil
    /\ \E k \in DOMAIN ctx.PDBRanges :
          ctx.PDBRanges[k].Start = 3 /\ ctx.PDBRanges[k].End = 8
    /\ \E i \in DOMAIN candidates :
          /\ candidates[i].Start = 3 /\ candidates[i].End = 8
          /\ candidates[i].Source = "domain"
          /\ candidates[i].Name = Kin
          /\ candidates[i].PDBID = <<>>

=============================================================================
